---- MODULE Spec2Model ----
(***************************************************************************)
(* A model of the SCIM proxy (abugrin/scim_proxy): the filter parser and   *)
(* evaluator, the backfill loop of a filtered list, the by-id pass-through *)
(* verbs and the PATCH adapter, one client request at a time.  Every       *)
(* upstream HTTP call is a suspension point: the handler runs up to the    *)
(* call, the upstream answers, and the handler runs on to its next call or *)
(* to its response.                                                        *)
(***************************************************************************)
EXTENDS Integers, Sequences, FiniteSets, TLC

VARIABLES
    pc,             \* where the handler of the current request is suspended
    req,            \* the client request being served
    inflight,       \* upstream calls issued and not yet answered
    calls,          \* every upstream call issued, in order
    answers,        \* the upstream's answers to the calls, in order
    all_users,      \* get_all_users_for_filtering: the accumulated resources
    start_index,    \* get_all_users_for_filtering: the page cursor
    patch_ops,      \* _adapt_patch_for_upstream: adapted_operations
    log,            \* levels of the log records emitted while serving
    response,       \* the response sent to the client
    returned,       \* the value a function called on its own returned
    tasks,          \* the handlers running at once on the event loop: their locals
    running,        \* the handler the event loop is executing, 0 between handlers
    tokens,         \* filter_parser.tokens of routers/users.py
    position,       \* filter_parser.position of routers/users.py
    upstream        \* the resource the upstream stores for the id of a PATCH

\* the state of the handlers that run at once
concurrent == <<tasks, running, tokens, position, upstream>>

vars == <<pc, req, inflight, calls, answers, all_users, start_index, patch_ops, log, response,
          returned, concurrent>>

-----------------------------------------------------------------------------
(* Python values.  A string is a sequence of one-character strings, so that *)
(* lower(), startswith() and the like are computed, not looked up.          *)

PyNone == [t |-> "none"]
PyStr(s) == [t |-> "str", s |-> s]
PyBool(b) == [t |-> "bool", b |-> b]
PyInt(n) == [t |-> "int", n |-> n]
PyList(items) == [t |-> "list", items |-> items]
PyDict(d) == [t |-> "dict", d |-> d]

\* dict.get(key): None when the key is missing
DictGet(d, key) == IF key \in DOMAIN d THEN d[key] ELSE PyNone

\* Python truthiness of a value
Truthy(v) ==
    CASE v.t = "none" -> FALSE
      [] v.t = "str" -> Len(v.s) > 0
      [] v.t = "bool" -> v.b
      [] v.t = "int" -> v.n # 0
      [] v.t = "list" -> Len(v.items) > 0
      [] v.t = "dict" -> DOMAIN v.d # {}

UpperCase == <<"A", "B", "C", "D", "E", "F", "G", "H", "I", "J", "K", "L", "M",
               "N", "O", "P", "Q", "R", "S", "T", "U", "V", "W", "X", "Y", "Z">>
LowerCase == <<"a", "b", "c", "d", "e", "f", "g", "h", "i", "j", "k", "l", "m",
               "n", "o", "p", "q", "r", "s", "t", "u", "v", "w", "x", "y", "z">>

LowerChar(c) ==
    IF \E i \in 1..Len(UpperCase) : UpperCase[i] = c
    THEN LowerCase[CHOOSE i \in 1..Len(UpperCase) : UpperCase[i] = c]
    ELSE c

\* str.lower()
Lower(s) == [i \in 1..Len(s) |-> LowerChar(s[i])]

\* actual.startswith(expected)
StartsWith(a, e) == Len(e) <= Len(a) /\ SubSeq(a, 1, Len(e)) = e

\* actual.endswith(expected)
EndsWith(a, e) == Len(e) <= Len(a) /\ SubSeq(a, Len(a) - Len(e) + 1, Len(a)) = e

\* expected in actual
Contains(a, e) ==
    Len(e) <= Len(a) /\ \E i \in 0..(Len(a) - Len(e)) : SubSeq(a, i + 1, i + Len(e)) = e

-----------------------------------------------------------------------------
(* The expression tree of models/filters.py.                                *)

AttributeExpression(attribute, operator, value) ==
    [type |-> "Attribute", attribute |-> attribute, operator |-> operator, value |-> value]
LogicalExpression(operator, left, right) ==
    [type |-> "Logical", operator |-> operator, left |-> left, right |-> right]
GroupExpression(expression) ==
    [type |-> "Group", expression |-> expression]
ComplexAttributeExpression(attribute, filter_expression, sub_attribute) ==
    [type |-> "Complex", attribute |-> attribute, filter_expression |-> filter_expression,
     sub_attribute |-> sub_attribute]

\* sub_attribute = None
NoSub == <<>>

-----------------------------------------------------------------------------
(* FilterParser.  The input is the token list _tokenize produces: pairs of  *)
(* a kind and a lexeme.  The lexeme of an ATTRIBUTE is its dotted path as a *)
(* sequence of names, the lexeme of a STRING or NUMBER is its characters,   *)
(* every other lexeme is a one-word sequence.  A character that no pattern  *)
(* matches is the token INVALID, on which _tokenize raises.                 *)

DigitValue(c) ==
    CASE c = "0" -> 0 [] c = "1" -> 1 [] c = "2" -> 2 [] c = "3" -> 3 [] c = "4" -> 4
      [] c = "5" -> 5 [] c = "6" -> 6 [] c = "7" -> 7 [] c = "8" -> 8 [] c = "9" -> 9
      [] OTHER -> -1

RECURSIVE DigitsValue(_, _)
DigitsValue(s, acc) ==
    IF s = <<>> THEN acc ELSE DigitsValue(Tail(s), 10 * acc + DigitValue(Head(s)))

Tok(k, v) == [k |-> k, v |-> v]

POk(node, pos) == [ok |-> TRUE, node |-> node, pos |-> pos]
PErr(err) == [ok |-> FALSE, err |-> err]

LowerWord(w) ==
    CASE w = "OR" -> "or" [] w = "AND" -> "and" [] w = "NOT" -> "not"
      [] w = "EQ" -> "eq" [] w = "PR" -> "pr" [] w = "TRUE" -> "true"
      [] w = "True" -> "true" [] w = "FALSE" -> "false" [] w = "False" -> "false"
      [] w = "Add" -> "add" [] w = "ADD" -> "add" [] w = "Replace" -> "replace"
      [] w = "Remove" -> "remove"
      [] OTHER -> w

\* _current_token() is a LOGICAL token spelling `word`
CurrentIsLogical(toks, pos, word) ==
    pos <= Len(toks) /\ toks[pos].k = "LOGICAL" /\ LowerWord(toks[pos].v[1]) = word

\* _current_token() has the kind `kind`
CurrentIs(toks, pos, kind) == pos <= Len(toks) /\ toks[pos].k = kind

\* _consume_token(expected_type): the token and the next position, or the error
ConsumeToken(toks, pos, expected_type) ==
    IF pos > Len(toks) THEN PErr("InvalidFilterError")
    ELSE IF toks[pos].k # expected_type THEN PErr("InvalidFilterError")
    ELSE POk(toks[pos], pos + 1)

\* the replace('\\"', '"').replace('\\\\', '\\') of _parse_value, one pass each
RECURSIVE ReplaceEscapedQuote(_)
ReplaceEscapedQuote(s) ==
    IF Len(s) = 0 THEN s
    ELSE IF Len(s) >= 2 /\ s[1] = "\\" /\ s[2] = "\""
         THEN <<"\"">> \o ReplaceEscapedQuote(SubSeq(s, 3, Len(s)))
         ELSE <<s[1]>> \o ReplaceEscapedQuote(Tail(s))

RECURSIVE ReplaceEscapedBackslash(_)
ReplaceEscapedBackslash(s) ==
    IF Len(s) = 0 THEN s
    ELSE IF Len(s) >= 2 /\ s[1] = "\\" /\ s[2] = "\\"
         THEN <<"\\">> \o ReplaceEscapedBackslash(SubSeq(s, 3, Len(s)))
         ELSE <<s[1]>> \o ReplaceEscapedBackslash(Tail(s))

\* _parse_value
ParseValue(toks, pos) ==
    IF pos > Len(toks) THEN PErr("InvalidFilterError")
    ELSE LET token == toks[pos] IN
         CASE token.k = "STRING" ->
                POk(PyStr(ReplaceEscapedBackslash(ReplaceEscapedQuote(
                        SubSeq(token.v, 2, Len(token.v) - 1)))), pos + 1)
           [] token.k = "NUMBER" -> POk(PyInt(DigitsValue(token.v, 0)), pos + 1)
           [] token.k = "BOOLEAN" -> POk(PyBool(LowerWord(token.v[1]) = "true"), pos + 1)
           [] token.k = "NULL" -> POk(PyNone, pos + 1)
           [] OTHER -> PErr("InvalidFilterError")

RECURSIVE ParseLogicalOr(_, _), OrLoop(_, _), OrRight(_, _, _), ParseLogicalAnd(_, _),
          AndLoop(_, _), AndRight(_, _, _), ParseLogicalNot(_, _), ParsePrimary(_, _),
          ParseAttributeExpression(_, _), ParseComplexAttribute(_, _, _)

\* _parse_logical_or: left = self._parse_logical_and(), then the while loop
ParseLogicalOr(toks, pos) == OrLoop(toks, ParseLogicalAnd(toks, pos))

\* the while loop of _parse_logical_or, entered with the result for `left`
OrLoop(toks, left) ==
    IF ~left.ok THEN left
    ELSE IF CurrentIsLogical(toks, left.pos, "or")
    THEN OrRight(toks, left, ParseLogicalAnd(toks, left.pos + 1))
    ELSE left

\* left = LogicalExpression(OR, left, right), and the loop again
OrRight(toks, left, right) ==
    IF ~right.ok THEN right
    ELSE OrLoop(toks, POk(LogicalExpression("or", left.node, right.node), right.pos))

\* _parse_logical_and: left = self._parse_logical_not(), then the while loop
ParseLogicalAnd(toks, pos) == AndLoop(toks, ParseLogicalNot(toks, pos))

\* the while loop of _parse_logical_and, entered with the result for `left`
AndLoop(toks, left) ==
    IF ~left.ok THEN left
    ELSE IF CurrentIsLogical(toks, left.pos, "and")
    THEN AndRight(toks, left, ParseLogicalNot(toks, left.pos + 1))
    ELSE left

\* left = LogicalExpression(AND, left, right), and the loop again
AndRight(toks, left, right) ==
    IF ~right.ok THEN right
    ELSE AndLoop(toks, POk(LogicalExpression("and", left.node, right.node), right.pos))

\* LogicalExpression(NOT, expr)
NotOf(e) == IF ~e.ok THEN e ELSE POk(LogicalExpression("not", e.node, PyNone), e.pos)

\* a _parse_logical_not whose operand is a whole conjunction
ParseLogicalNotLoose(toks, pos) ==
    IF CurrentIsLogical(toks, pos, "not")
    THEN NotOf(ParseLogicalAnd(toks, pos + 1))
    ELSE ParsePrimary(toks, pos)

\* _parse_logical_not
ParseLogicalNot(toks, pos) ==
    IF CurrentIsLogical(toks, pos, "not")
    THEN NotOf(ParsePrimary(toks, pos + 1))
    ELSE ParsePrimary(toks, pos)

\* GroupExpression(expr) once the RPAREN is consumed
GroupClosed(e, r) == IF ~r.ok THEN r ELSE POk(GroupExpression(e.node), r.pos)

\* _parse_primary after the LPAREN: the expression, then the RPAREN
GroupOf(toks, e) ==
    IF ~e.ok THEN e ELSE GroupClosed(e, ConsumeToken(toks, e.pos, "RPAREN"))

\* _parse_primary
ParsePrimary(toks, pos) ==
    IF pos > Len(toks) THEN PErr("InvalidFilterError")
    ELSE IF toks[pos].k = "LPAREN" THEN GroupOf(toks, ParseLogicalOr(toks, pos + 1))
    ELSE IF toks[pos].k = "ATTRIBUTE" THEN ParseAttributeExpression(toks, pos)
    ELSE PErr("InvalidFilterError")

\* AttributeExpression(attribute, operator, value) once the value is parsed
ComparisonOf(attribute, operator, v) ==
    IF ~v.ok THEN v ELSE POk(AttributeExpression(attribute, operator, v.node), v.pos)

\* _parse_attribute_expression after the attribute: the operator, then the
\* value unless the operator is pr
OperatorOf(toks, attribute, o) ==
    IF ~o.ok THEN o
    ELSE IF LowerWord(o.node.v[1]) = "pr"
    THEN POk(AttributeExpression(attribute, "pr", PyNone), o.pos)
    ELSE ComparisonOf(attribute, LowerWord(o.node.v[1]), ParseValue(toks, o.pos))

\* _parse_attribute_expression
ParseAttributeExpression(toks, pos) ==
    IF ~CurrentIs(toks, pos, "ATTRIBUTE") THEN PErr("InvalidFilterError")
    ELSE IF CurrentIs(toks, pos + 1, "LBRACKET")
    THEN ParseComplexAttribute(toks, pos + 1, toks[pos].v)
    ELSE OperatorOf(toks, toks[pos].v, ConsumeToken(toks, pos + 1, "OPERATOR"))

\* _parse_complex_attribute after the RBRACKET: the sub-attribute when a DOT follows
SubAttributeOf(toks, attribute, f, pos) ==
    IF ~CurrentIs(toks, pos, "DOT")
    THEN POk(ComplexAttributeExpression(attribute, f.node, NoSub), pos)
    ELSE IF ~CurrentIs(toks, pos + 1, "ATTRIBUTE") THEN PErr("InvalidFilterError")
    ELSE POk(ComplexAttributeExpression(attribute, f.node, toks[pos + 1].v), pos + 2)

\* a _parse_complex_attribute that does not ask for the RBRACKET
BracketClosedLenient(toks, attribute, f) ==
    IF ~f.ok THEN f ELSE SubAttributeOf(toks, attribute, f, f.pos)

\* _parse_complex_attribute after the filter expression: the RBRACKET
BracketClosed(toks, attribute, f) ==
    IF ~f.ok THEN f
    ELSE IF ~CurrentIs(toks, f.pos, "RBRACKET") THEN PErr("InvalidFilterError")
    ELSE SubAttributeOf(toks, attribute, f, f.pos + 1)

\* _parse_complex_attribute
ParseComplexAttribute(toks, pos, attribute) ==
    IF ~CurrentIs(toks, pos, "LBRACKET") THEN PErr("InvalidFilterError")
    ELSE BracketClosed(toks, attribute, ParseLogicalOr(toks, pos + 1))

\* _tokenize raises on a character that no pattern matches
TokenizeFails(toks) == \E i \in 1..Len(toks) : toks[i].k = "INVALID"

\* a parse that returns the expression whatever tokens are left
AllConsumedLenient(toks, e) == e

\* parse: tokens left after the expression are an error
AllConsumed(toks, e) ==
    IF ~e.ok THEN e
    ELSE IF e.pos <= Len(toks) THEN PErr("InvalidFilterError")
    ELSE e

\* parse: a filter is the pair (blank, toks); a blank string has no tokens
Parse(filter) ==
    IF filter.blank THEN PErr("InvalidFilterError")
    ELSE IF TokenizeFails(filter.toks) THEN PErr("InvalidFilterError")
    ELSE AllConsumed(filter.toks, ParseLogicalOr(filter.toks, 1))

-----------------------------------------------------------------------------
(* Python objects handed to the evaluator: a plain dict, a pydantic model   *)
(* (seen through its dict(by_alias=True)), an instance of the class that    *)
(* type('TempResource', (), item)() creates, or any other value.            *)

EmptyDict == [k \in {} |-> PyNone]

DictObject(d) == [py |-> "dict", d |-> d]
ModelObject(d) == [py |-> "model", d |-> d]
\* the item's keys become attributes of the class; the instance's own
\* __dict__ is empty
TempResource(item) == [py |-> "TempResource", cls |-> item, d |-> EmptyDict]
OtherObject(v) == [py |-> "other", v |-> v]

RECURSIVE WalkPath(_, _)
\* the for loop of _get_attribute_value over the parts of the path
WalkPath(current_value, parts) ==
    IF parts = <<>> THEN current_value
    ELSE IF current_value.t = "dict"
         THEN LET next == DictGet(current_value.d, Head(parts)) IN
              IF next.t = "none" THEN PyNone ELSE WalkPath(next, Tail(parts))
         ELSE PyNone

\* _get_attribute_value
GetAttributeValue(resource, attribute_path) ==
    CASE resource.py = "model" -> WalkPath(PyDict(resource.d), attribute_path)
      [] resource.py = "TempResource" -> WalkPath(PyDict(resource.d), attribute_path)
      [] resource.py = "dict" -> WalkPath(PyDict(resource.d), attribute_path)
      [] OTHER -> PyNone

\* Python's == on two values (True == 1, False == 0; otherwise by type and value)
PyEq(a, b) ==
    CASE a.t = "bool" /\ b.t = "int" -> (IF a.b THEN 1 ELSE 0) = b.n
      [] a.t = "int" /\ b.t = "bool" -> a.n = (IF b.b THEN 1 ELSE 0)
      [] a.t = b.t -> a = b
      [] OTHER -> FALSE

\* _equals
Equals(actual, expected) ==
    IF actual.t = "str" /\ expected.t = "str"
    THEN Lower(actual.s) = Lower(expected.s)
    ELSE PyEq(actual, expected)

\* float(v): the number, or the ValueError / TypeError the comparisons catch
ToFloat(v) ==
    CASE v.t = "int" -> [ok |-> TRUE, x |-> v.n]
      [] v.t = "bool" -> [ok |-> TRUE, x |-> IF v.b THEN 1 ELSE 0]
      [] v.t = "str" /\ Len(v.s) > 0 /\ (\A i \in 1..Len(v.s) : DigitValue(v.s[i]) >= 0) ->
            [ok |-> TRUE, x |-> DigitsValue(v.s, 0)]
      [] OTHER -> [ok |-> FALSE, x |-> 0]

\* _compare_values
CompareValues(actual, operator, expected) ==
    LET a == ToFloat(actual)
        e == ToFloat(expected)
        str == actual.t = "str" /\ expected.t = "str"
    IN  CASE operator = "eq" -> Equals(actual, expected)
          [] operator = "ne" -> ~Equals(actual, expected)
          [] operator = "co" -> str /\ Contains(Lower(actual.s), Lower(expected.s))
          [] operator = "sw" -> str /\ StartsWith(Lower(actual.s), Lower(expected.s))
          [] operator = "ew" -> str /\ EndsWith(Lower(actual.s), Lower(expected.s))
          [] operator = "gt" -> a.ok /\ e.ok /\ a.x > e.x
          [] operator = "ge" -> a.ok /\ e.ok /\ a.x >= e.x
          [] operator = "lt" -> a.ok /\ e.ok /\ a.x < e.x
          [] operator = "le" -> a.ok /\ e.ok /\ a.x <= e.x

\* an evaluation that compares whatever the path resolves to
EvaluateAttributeExpressionUnguarded(resource, expr) ==
    IF expr.operator = "pr" THEN GetAttributeValue(resource, expr.attribute).t # "none"
    ELSE CompareValues(GetAttributeValue(resource, expr.attribute), expr.operator, expr.value)

\* _evaluate_attribute_expression
EvaluateAttributeExpression(resource, expr) ==
    LET value == GetAttributeValue(resource, expr.attribute) IN
    IF expr.operator = "pr" THEN value.t # "none"
    ELSE IF value.t = "none" THEN FALSE
    ELSE CompareValues(value, expr.operator, expr.value)

\* the temporary object _evaluate_complex_attribute_expression builds for an item
ItemResource(item) ==
    IF item.t = "dict" THEN TempResource(item.d) ELSE OtherObject(item)

RECURSIVE EvaluateExpression(_, _), EvaluateLogicalExpression(_, _),
          EvaluateComplexAttributeExpression(_, _), EvaluateItems(_, _, _)

\* _evaluate_expression
EvaluateExpression(resource, expr) ==
    CASE expr.type = "Attribute" -> EvaluateAttributeExpression(resource, expr)
      [] expr.type = "Logical" -> EvaluateLogicalExpression(resource, expr)
      [] expr.type = "Group" -> EvaluateExpression(resource, expr.expression)
      [] expr.type = "Complex" -> EvaluateComplexAttributeExpression(resource, expr)

\* _evaluate_logical_expression
EvaluateLogicalExpression(resource, expr) ==
    CASE expr.operator = "not" -> ~EvaluateExpression(resource, expr.left)
      [] expr.operator = "and" ->
            IF ~EvaluateExpression(resource, expr.left) THEN FALSE
            ELSE EvaluateExpression(resource, expr.right)
      [] expr.operator = "or" ->
            IF EvaluateExpression(resource, expr.left) THEN TRUE
            ELSE EvaluateExpression(resource, expr.right)

\* _evaluate_complex_attribute_expression
EvaluateComplexAttributeExpression(resource, expr) ==
    LET array_value == GetAttributeValue(resource, expr.attribute) IN
    IF array_value.t # "list" THEN FALSE
    ELSE EvaluateItems(array_value.items, expr, 1)

\* the for loop of _evaluate_complex_attribute_expression, from item i on
EvaluateItems(items, expr, i) ==
    IF i > Len(items) THEN FALSE
    ELSE LET temp_resource == ItemResource(items[i]) IN
         IF EvaluateExpression(temp_resource, expr.filter_expression)
         THEN IF expr.sub_attribute # NoSub
              THEN GetAttributeValue(temp_resource, expr.sub_attribute).t # "none"
              ELSE TRUE
         ELSE EvaluateItems(items, expr, i + 1)

\* type('TempResource', (), item)() raises TypeError when a key of the item
\* takes the place of the constructor: the value of the key is not callable
ConstructorRaises(item) ==
    item.t = "dict" /\ DOMAIN item.d \cap {"__init__", "__new__"} # {}

RECURSIVE EvaluationRaises(_, _), ItemsRaise(_, _, _)

\* _evaluate_expression raises: the exception of the constructor leaves
\* _evaluate_complex_attribute_expression and every caller up to apply_filter;
\* the right operand of `and` / `or` is reached when the left one did not
\* raise and did not decide the result
EvaluationRaises(resource, expr) ==
    CASE expr.type = "Attribute" -> FALSE
      [] expr.type = "Group" -> EvaluationRaises(resource, expr.expression)
      [] expr.type = "Complex" ->
            IF GetAttributeValue(resource, expr.attribute).t # "list" THEN FALSE
            ELSE ItemsRaise(GetAttributeValue(resource, expr.attribute).items, expr, 1)
      [] expr.type = "Logical" /\ expr.operator = "not" -> EvaluationRaises(resource, expr.left)
      [] expr.type = "Logical" /\ expr.operator = "and" ->
            \/ EvaluationRaises(resource, expr.left)
            \/ /\ EvaluationRaises(resource, expr.right)
               /\ EvaluateExpression(resource, expr.left)
      [] expr.type = "Logical" /\ expr.operator = "or" ->
            \/ EvaluationRaises(resource, expr.left)
            \/ /\ EvaluationRaises(resource, expr.right)
               /\ ~EvaluateExpression(resource, expr.left)

\* the for loop of _evaluate_complex_attribute_expression raises, from item i on
ItemsRaise(items, expr, i) ==
    IF i > Len(items) THEN FALSE
    ELSE IF ConstructorRaises(items[i]) THEN TRUE
    ELSE IF EvaluationRaises(ItemResource(items[i]), expr.filter_expression) THEN TRUE
    ELSE IF EvaluateExpression(ItemResource(items[i]), expr.filter_expression) THEN FALSE
    ELSE ItemsRaise(items, expr, i + 1)

\* the resources before the first one whose evaluation raises
BeforeFirstRaise(resources, filter_expr) ==
    SubSeq(resources, 1,
           IF \E i \in 1..Len(resources) : EvaluationRaises(resources[i], filter_expr)
           THEN (CHOOSE i \in 1..Len(resources) :
                    /\ EvaluationRaises(resources[i], filter_expr)
                    /\ \A j \in 1..(i - 1) : ~EvaluationRaises(resources[j], filter_expr)) - 1
           ELSE Len(resources))

\* an apply_filter whose loop ends at the first resource that raises
ApplyFilterBreaks(resources, filter_expr) ==
    SelectSeq(BeforeFirstRaise(resources, filter_expr),
              LAMBDA r : EvaluateExpression(r, filter_expr))

\* apply_filter: the resources on which the expression evaluates to true, in
\* order; the except clause skips a resource whose evaluation raises
ApplyFilter(resources, filter_expr) ==
    SelectSeq(resources, LAMBDA r : IF EvaluationRaises(r, filter_expr) THEN FALSE
                                    ELSE EvaluateExpression(r, filter_expr))

-----------------------------------------------------------------------------
(* The upstream's documents.  The upstream holds an unbounded list of       *)
(* resources; the resource at index i is one of a few documents, with its   *)
(* own id.                                                                  *)

S_alice == <<"a", "l", "i", "c", "e">>
S_Bob == <<"B", "o", "b">>
S_carol == <<"c", "a", "r", "o", "l">>
S_work == <<"w", "o", "r", "k">>
S_Work == <<"W", "o", "r", "k">>
S_home == <<"h", "o", "m", "e">>
S_hx == <<"h", "@", "x">>
S_wx == <<"w", "@", "x">>
S_bx == <<"b", "@", "x">>
S_boss == <<"b", "o", "s", "s">>
S_UserSchema == <<"urn:ietf:params:scim:schemas:core:2.0:User">>

DigitChar(n) ==
    CASE n = 0 -> "0" [] n = 1 -> "1" [] n = 2 -> "2" [] n = 3 -> "3" [] n = 4 -> "4"
      [] n = 5 -> "5" [] n = 6 -> "6" [] n = 7 -> "7" [] n = 8 -> "8" [] n = 9 -> "9"

RECURSIVE Digits(_)
\* str(n) for n >= 0
Digits(n) == IF n < 10 THEN <<DigitChar(n)>> ELSE Digits(n \div 10) \o <<DigitChar(n % 10)>>

\* a user with a home and a primary work e-mail
UserAlice ==
    [id |-> PyStr(<<>>), schemas |-> PyList(<<PyStr(S_UserSchema)>>),
     userName |-> PyStr(S_alice), active |-> PyBool(TRUE),
     emails |-> PyList(<<
        PyDict([type |-> PyStr(S_home), value |-> PyStr(S_hx)]),
        PyDict([type |-> PyStr(S_work), primary |-> PyBool(TRUE), value |-> PyStr(S_wx)])>>)]

\* a user with one e-mail, a title, and no `active`
UserBob ==
    [id |-> PyStr(<<>>), schemas |-> PyList(<<PyStr(S_UserSchema)>>),
     userName |-> PyStr(S_Bob), title |-> PyStr(S_boss),
     emails |-> PyList(<<PyDict([type |-> PyStr(S_Work), value |-> PyStr(S_bx)])>>)]

\* an inactive user without e-mails
UserCarol ==
    [id |-> PyStr(<<>>), schemas |-> PyList(<<PyStr(S_UserSchema)>>),
     userName |-> PyStr(S_carol), active |-> PyBool(FALSE)]

UpstreamDocs == <<UserAlice, UserBob, UserCarol>>

\* the JSON document of the upstream's i-th resource
UpstreamDoc(i) ==
    [UpstreamDocs[((i - 1) % Len(UpstreamDocs)) + 1] EXCEPT !.id = PyStr(Digits(i))]

-----------------------------------------------------------------------------
(* models/scim.py: what the User model makes of a JSON document, seen through *)
(* dict(by_alias=True).  Declared fields that are missing get their         *)
(* defaults, undeclared ones are kept (extra = "allow"); an e-mail keeps    *)
(* value, type and primary only.                                            *)

\* the dict() of the Email built from an item
EmailDump(item) ==
    [value |-> item.value, type |-> DictGet(item, "type"),
     primary |-> IF "primary" \in DOMAIN item THEN item.primary ELSE PyBool(FALSE)]

\* the Email model validates: value is a required string
EmailValid(item) ==
    /\ item.t = "dict"
    /\ "value" \in DOMAIN item.d
    /\ item.d.value.t = "str"

UserDefaults ==
    [id |-> PyNone, externalId |-> PyNone, userName |-> PyNone, displayName |-> PyNone,
     active |-> PyBool(TRUE), emails |-> PyList(<<>>), phoneNumbers |-> PyList(<<>>),
     name |-> PyNone, title |-> PyNone, isInternalRobot |-> PyBool(FALSE), meta |-> PyNone,
     schemas |-> PyList(<<PyStr(S_UserSchema)>>)]

\* the User model validates
UserValid(data) ==
    /\ \A k \in {"emails", "phoneNumbers"} \cap DOMAIN data :
          /\ data[k].t = "list"
          /\ \A i \in 1..Len(data[k].items) : EmailValid(data[k].items[i])
    /\ \A k \in {"id", "userName", "title", "displayName", "externalId"} \cap DOMAIN data :
          data[k].t \in {"str", "none"}

\* the dict(by_alias=True) of the User built from data
UserDump(data) ==
    [k \in DOMAIN UserDefaults \cup DOMAIN data |->
        IF k \notin DOMAIN data THEN UserDefaults[k]
        ELSE IF k \in {"emails", "phoneNumbers"}
             THEN PyList([i \in 1..Len(data[k].items) |-> PyDict(EmailDump(data[k].items[i].d))])
             ELSE data[k]]

-----------------------------------------------------------------------------
(* The filter strings the client sends, as their token lists.               *)

Quoted(s) == <<"\"">> \o s \o <<"\"">>
FilterString(toks) == [given |-> TRUE, blank |-> FALSE, toks |-> toks]

\* userName eq "alice"
FilterUserNameEq ==
    FilterString(<<Tok("ATTRIBUTE", <<"userName">>), Tok("OPERATOR", <<"eq">>),
                   Tok("STRING", Quoted(S_alice))>>)

\* active EQ True
FilterActive ==
    FilterString(<<Tok("ATTRIBUTE", <<"active">>), Tok("OPERATOR", <<"EQ">>),
                   Tok("BOOLEAN", <<"True">>)>>)

\* emails[type eq "work" and primary eq true].value pr
FilterWorkEmail ==
    FilterString(<<Tok("ATTRIBUTE", <<"emails">>), Tok("LBRACKET", <<"[">>),
                   Tok("ATTRIBUTE", <<"type">>), Tok("OPERATOR", <<"eq">>),
                   Tok("STRING", Quoted(S_work)), Tok("LOGICAL", <<"and">>),
                   Tok("ATTRIBUTE", <<"primary">>), Tok("OPERATOR", <<"eq">>),
                   Tok("BOOLEAN", <<"true">>), Tok("RBRACKET", <<"]">>), Tok("DOT", <<".">>),
                   Tok("ATTRIBUTE", <<"value">>), Tok("OPERATOR", <<"pr">>)>>)

\* emails[type eq "work"]
FilterWorkEmailNoSub ==
    FilterString(<<Tok("ATTRIBUTE", <<"emails">>), Tok("LBRACKET", <<"[">>),
                   Tok("ATTRIBUTE", <<"type">>), Tok("OPERATOR", <<"eq">>),
                   Tok("STRING", Quoted(S_work)), Tok("RBRACKET", <<"]">>)>>)

\* title pr or not (active eq true)
FilterTitleOrInactive ==
    FilterString(<<Tok("ATTRIBUTE", <<"title">>), Tok("OPERATOR", <<"pr">>),
                   Tok("LOGICAL", <<"OR">>), Tok("LOGICAL", <<"not">>), Tok("LPAREN", <<"(">>),
                   Tok("ATTRIBUTE", <<"active">>), Tok("OPERATOR", <<"eq">>),
                   Tok("BOOLEAN", <<"true">>), Tok("RPAREN", <<")">>)>>)

\* userName eq
FilterTruncated ==
    FilterString(<<Tok("ATTRIBUTE", <<"userName">>), Tok("OPERATOR", <<"eq">>)>>)

\* userName pr )
FilterTrailing ==
    FilterString(<<Tok("ATTRIBUTE", <<"userName">>), Tok("OPERATOR", <<"pr">>), Tok("RPAREN", <<")">>)>>)

\* userName eq 'alice'
FilterBadCharacter ==
    FilterString(<<Tok("ATTRIBUTE", <<"userName">>), Tok("OPERATOR", <<"eq">>), Tok("INVALID", <<"'">>)>>)

\* a filter of spaces only
FilterBlank == [given |-> TRUE, blank |-> TRUE, toks |-> <<>>]

\* no filter parameter, or an empty one
NoFilter == [given |-> FALSE, blank |-> TRUE, toks |-> <<>>]

\* emails[type eq "work" and primary eq true].value
FilterWorkEmailValue ==
    FilterString(SubSeq(FilterWorkEmail.toks, 1, Len(FilterWorkEmail.toks) - 1))

\* settings.max_filter_complexity
max_filter_complexity == 50

RECURSIVE Conjunction(_)
\* the tokens of `userName pr and userName pr and ...` with n attribute expressions
Conjunction(n) ==
    IF n <= 1 THEN <<Tok("ATTRIBUTE", <<"userName">>), Tok("OPERATOR", <<"pr">>)>>
    ELSE Conjunction(n - 1)
             \o <<Tok("LOGICAL", <<"and">>), Tok("ATTRIBUTE", <<"userName">>), Tok("OPERATOR", <<"pr">>)>>

\* a filter of more than max_filter_complexity nodes: n attribute expressions
\* and n - 1 conjunctions
FilterManyNodes == FilterString(Conjunction(max_filter_complexity \div 2 + 1))

Filters == {FilterUserNameEq, FilterActive, FilterWorkEmail, FilterWorkEmailValue,
            FilterWorkEmailNoSub, FilterTitleOrInactive, FilterTruncated, FilterTrailing,
            FilterBadCharacter, FilterBlank, FilterManyNodes}

\* filter_parser.parse(filter) for each of them
Parsed == [f \in Filters |-> Parse(f)]

-----------------------------------------------------------------------------
(* Exceptions, and the responses the handlers of main.py make of them.      *)

\* UpstreamError's default status_code
DefaultUpstreamStatus == 502

InvalidFilterError == [type |-> "InvalidFilterError", status_code |-> 400, scim_type |-> "invalidFilter"]
UpstreamError(status_code) == [type |-> "UpstreamError", status_code |-> status_code, scim_type |-> "upstream"]
HTTPException(status_code) == [type |-> "HTTPException", status_code |-> status_code, scim_type |-> "none"]

NoResponse == [status |-> 0, scimType |-> "none", body |-> PyNone]

\* http_exception_handler: SCIMError(status, detail), scimType left unset
HttpExceptionHandler(exc) == [status |-> exc.status_code, scimType |-> "none", body |-> PyNone]

\* a handler's return value, sent with the route's status code
Success(status, body) == [status |-> status, scimType |-> "none", body |-> body]

-----------------------------------------------------------------------------
(* SCIMProxyService: one upstream verb.  The upstream's answer is a status  *)
(* code with a body that validates or not, or a transport failure (a        *)
(* timeout is one).                                                         *)

Transport == [kind |-> "transport", code |-> 0, valid |-> FALSE]
Status(code, valid) == [kind |-> "status", code |-> code, valid |-> valid]

\* the status codes the verb's method takes for success
SuccessCodes(verb) ==
    CASE verb = "create" -> {200, 201}
      [] verb = "delete" -> {204}
      [] OTHER -> {200}

\* what the method raises inside its try block for the answer (nothing on success)
RaisedInTry(verb, answer) ==
    IF answer.kind = "transport" THEN [type |-> "RequestError", status_code |-> 0, scim_type |-> "none"]
    ELSE IF answer.code \in SuccessCodes(verb)
         THEN IF verb = "delete" \/ answer.valid THEN [type |-> "none", status_code |-> 0, scim_type |-> "none"]
              ELSE [type |-> "ValidationError", status_code |-> 0, scim_type |-> "none"]
         ELSE UpstreamError(answer.code)

\* the except clauses of the method: httpx.RequestError, then Exception (an
\* UpstreamError raised in the try block is an Exception too)
ServiceExcept(raised) ==
    CASE raised.type = "none" -> raised
      [] raised.type = "RequestError" -> UpstreamError(DefaultUpstreamStatus)
      [] OTHER -> UpstreamError(DefaultUpstreamStatus)

\* get_user, update_user, patch_user, delete_user, create_user, get_users (and
\* their Group twins): the exception the call ends with, or none
ServiceCall(verb, answer) == ServiceExcept(RaisedInTry(verb, answer))

\* the except clauses of a router handler around its body
RouterExcept(exc) ==
    IF exc.type = "UpstreamError" THEN HTTPException(exc.status_code)
    ELSE HTTPException(500)

-----------------------------------------------------------------------------
(* Listing: list_users / list_groups and get_all_users_for_filtering /      *)
(* get_all_groups_for_filtering.                                            *)

\* settings.filter_fetch_multiplier
filter_fetch_multiplier == 20
\* settings.max_filter_fetch_size: read from the environment (2000 when unset);
\* the deployment modelled caps the working set at two and a half pages
max_filter_fetch_size == 250
\* page_size of get_all_users_for_filtering
page_size == 100

Min(a, b) == IF a <= b THEN a ELSE b

\* list_users: max_fetch
MaxFetch(count) == Min(count * filter_fetch_multiplier, max_filter_fetch_size)

\* get_users: the query parameters of the upstream request
GetUsersParams(start, count, attributes, excluded_attributes) ==
    [startIndex |-> start, count |-> count]
        @@ (IF attributes # <<>> THEN [attributes |-> attributes] ELSE EmptyDict)
        @@ (IF excluded_attributes # <<>> THEN [excludedAttributes |-> excluded_attributes]
            ELSE EmptyDict)

NoBody == [schemas |-> <<>>, Operations |-> <<>>]

UpstreamCall(method, path, params, body) ==
    [method |-> method, path |-> path, params |-> params, body |-> body]

\* the attributes list_users hands to get_all_users_for_filtering
BackfillAttributes(attributes_list) == attributes_list

\* a backfill that asks for the whole working set in one request
BackfillCallAsksAll(r, start) ==
    UpstreamCall("GET", <<r.rt>>, GetUsersParams(start, MaxFetch(r.count),
                 BackfillAttributes(r.attributes), BackfillAttributes(r.excluded_attributes)),
                 NoBody)

\* get_users as called from the backfill loop
BackfillCall(r, start) ==
    UpstreamCall("GET", <<r.rt>>, GetUsersParams(start, page_size,
                 BackfillAttributes(r.attributes), BackfillAttributes(r.excluded_attributes)),
                 NoBody)

\* a return that forgets the cut to max_results
PrefixWhole(s, n) == s

\* s[:n]
Prefix(s, n) == SubSeq(s, 1, Min(Len(s), n))

\* s[a:b] for 0 <= a
Slice(s, a, b) == SubSeq(s, a + 1, Min(Len(s), b))

\* the resources of a page: the upstream's indices first .. first + n - 1
PageResources(page) == [i \in 1..page.n |-> page.first + i - 1]

\* a loop that skips a failed page and asks for the next one
BackfillTurnGoesOn(all, start, page) ==
    IF ServiceCall("list", page.answer).type # "none"
    THEN [all_users |-> all, start_index |-> start + page_size, again |-> TRUE]
    ELSE IF page.n = 0 \/ page.n < page_size
    THEN [all_users |-> all \o PageResources(page), start_index |-> start, again |-> FALSE]
    ELSE [all_users |-> all \o PageResources(page), start_index |-> start + page_size,
          again |-> page.total = 0 \/ Len(all) + page.n < page.total]

\* a loop that ends on a failure or a short page only, whatever totalResults says
BackfillTurnIgnoresTotal(all, start, page) ==
    IF ServiceCall("list", page.answer).type # "none" \/ page.n = 0
    THEN [all_users |-> all, start_index |-> start, again |-> FALSE]
    ELSE IF page.n < page_size
    THEN [all_users |-> all \o PageResources(page), start_index |-> start, again |-> FALSE]
    ELSE [all_users |-> all \o PageResources(page), start_index |-> start + page_size,
          again |-> TRUE]

\* one turn of the while loop of get_all_users_for_filtering, after the answer
\* to its get_users call: the new locals, and whether the loop body ends
\* without a break
BackfillTurn(all, start, page) ==
    IF ServiceCall("list", page.answer).type # "none"
    THEN [all_users |-> all, start_index |-> start, again |-> FALSE]
    ELSE IF page.n = 0
    THEN [all_users |-> all, start_index |-> start, again |-> FALSE]
    ELSE LET extended == all \o PageResources(page) IN
         IF page.n < page_size
         THEN [all_users |-> extended, start_index |-> start, again |-> FALSE]
         ELSE IF page.total # 0 /\ Len(extended) >= page.total
         THEN [all_users |-> extended, start_index |-> start, again |-> FALSE]
         ELSE [all_users |-> extended, start_index |-> start + page_size, again |-> TRUE]

\* what ListResponse(**data) makes of a resource of a page: Union[User, Dict]
\* resolves to the model or to the plain dict, depending on the library
ParseResource(i, as_model) ==
    IF as_model /\ UserValid(UpstreamDoc(i)) THEN ModelObject(UserDump(UpstreamDoc(i)))
    ELSE DictObject(UpstreamDoc(i))

\* a projection that excludes every attribute named
FilterUserAttributesUnprotected(user, attributes, excluded_attributes) ==
    IF attributes = <<>> /\ excluded_attributes = <<>> THEN user
    ELSE IF attributes # <<>>
         THEN DictObject([k \in ({attributes[i] : i \in 1..Len(attributes)} \cup {"id", "schemas"})
                                    \cap DOMAIN user.d |-> user.d[k]])
         ELSE DictObject([k \in DOMAIN user.d
                                    \ {excluded_attributes[i] : i \in 1..Len(excluded_attributes)} |->
                             user.d[k]])

\* _filter_user_attributes
FilterUserAttributes(user, attributes, excluded_attributes) ==
    IF attributes = <<>> /\ excluded_attributes = <<>> THEN user
    ELSE LET user_dict == user.d
             included == {attributes[i] : i \in 1..Len(attributes)} \cup {"id", "schemas"}
             excluded == {excluded_attributes[i] : i \in 1..Len(excluded_attributes)}
                            \ {"id", "schemas"}
         IN  IF attributes # <<>>
             THEN DictObject([k \in included \cap DOMAIN user_dict |-> user_dict[k]])
             ELSE DictObject([k \in DOMAIN user_dict \ excluded |-> user_dict[k]])

\* _apply_attribute_filtering
ApplyAttributeFiltering(users, attributes, excluded_attributes) ==
    IF attributes = <<>> /\ excluded_attributes = <<>> THEN users
    ELSE [i \in 1..Len(users) |-> FilterUserAttributes(users[i], attributes, excluded_attributes)]

\* a slice that takes startIndex for a 0-based offset
PaginateFromStart(filtered_users, start, count) == Slice(filtered_users, start, start + count)

\* filtered_users[start_idx:end_idx]
Paginate(filtered_users, start, count) == Slice(filtered_users, start - 1, start - 1 + count)

ListBody(total, start, resources) ==
    [totalResults |-> total, startIndex |-> start, itemsPerPage |-> Len(resources),
     Resources |-> resources]

\* list_users, from the return of get_all_users_for_filtering to the response
FilteredListResponse(r, working) ==
    LET filter_expr == Parsed[r.filter].node
        loaded == [i \in 1..Len(working) |-> ParseResource(working[i], r.as_model)]
        filtered_users == ApplyFilter(loaded, filter_expr)
        paginated_users == Paginate(filtered_users, r.start_index, r.count)
        shown == ApplyAttributeFiltering(paginated_users, r.attributes, r.excluded_attributes)
    IN  Success(200, ListBody(Len(filtered_users), r.start_index, shown))

\* the except clauses around the filter branch of list_users
FilterBranchExcept(exc) ==
    IF exc.type = "InvalidFilterError" THEN HTTPException(400) ELSE HTTPException(500)

\* an exception raised in the filter branch of list_users, as it leaves the
\* handler: the inner except clauses re-raise inside the outer try block
ListUsersRaise(exc) == RouterExcept(FilterBranchExcept(exc))

-----------------------------------------------------------------------------
(* The client's requests and the upstream's answers.                        *)

\* the largest startIndex a client asks for
MaxStartIndex == 2
\* the length of a page that is not full
ShortPage == 3
\* how far the totalResults the upstream advertises lies beyond what was fetched
MoreUpstream == 50
\* the counts a client asks for: one page is not reached, one page is reached
\* exactly, the second page is cut, max_filter_fetch_size caps the working set
SmallCount == 1
PageCount == 5
MidCount == 6
BigCount == 13

Counts == {SmallCount, PageCount, MidCount, BigCount}
AttributeLists == {<<>>, <<"userName">>}
ExcludedLists == {<<>>, <<"emails">>}
ResourceTypes == {"/Users", "/Groups"}

StatusCodes == {200, 201, 204, 404, 429, 500}
Answers == {Transport} \cup {Status(c, v) : c \in StatusCodes, v \in BOOLEAN}

\* an upstream answer to a list call: the resources first .. first + n - 1 with
\* the advertised totalResults, when the answer is a valid 200
Page(answer, first, n, total) ==
    [answer |-> answer, first |-> first, n |-> n, total |-> total, doc |-> 0]

\* the answers to a page request at `start` when `have` resources are held
PageAnswers(start, have) ==
    {Page(Transport, start, 0, 0), Page(Status(500, FALSE), start, 0, 0),
     Page(Status(200, FALSE), start, 0, 0), Page(Status(200, TRUE), start, 0, 0)}
    \cup UNION {{Page(Status(200, TRUE), start, n, total) :
                    total \in {0, have + n, have + n + MoreUpstream}} :
                 n \in {ShortPage, page_size}}

GetAnswer(answer, doc) == [answer |-> answer, first |-> 0, n |-> 0, total |-> 0, doc |-> doc]

ListRequest(rt, filter, attributes, excluded_attributes, start, count, as_model) ==
    [kind |-> "list", rt |-> rt, filter |-> filter, attributes |-> attributes,
     excluded_attributes |-> excluded_attributes, start_index |-> start, count |-> count,
     as_model |-> as_model]

-----------------------------------------------------------------------------
(* PATCH: patch_user / patch_group and _adapt_patch_for_upstream.  A path   *)
(* is kept by its parts: the text before '[', the text between '[' and ']'  *)
(* as the pieces ' eq ' separates (the field, then the literals), and the   *)
(* text after '].'.                                                         *)

NoPath == [given |-> FALSE, base |-> "", filtered |-> FALSE, field |-> "", literals |-> <<>>, sub |-> ""]
PlainPath(name) ==
    [given |-> TRUE, base |-> name, filtered |-> FALSE, field |-> "", literals |-> <<>>, sub |-> ""]
FilteredPath(base, field, literals, sub) ==
    [given |-> TRUE, base |-> base, filtered |-> TRUE, field |-> field, literals |-> literals,
     sub |-> sub]

PatchOperation(op, path, value) == [op |-> op, path |-> path, value |-> value]

S_true == <<"t", "r", "u", "e">>
S_false == <<"f", "a", "l", "s", "e">>

\* a first loop that takes every add with a path
IsFilteredAddAnyPath(op) == LowerWord(op.op) = "add" /\ op.path.given

\* the first loop of _adapt_patch_for_upstream: an add with '[' and ']' in its path
IsFilteredAdd(op) == LowerWord(op.op) = "add" /\ op.path.given /\ op.path.filtered

\* the value of an operation that is copied, with 'true' / 'false' strings made booleans
AdaptValue(value) ==
    IF value.t = "str" /\ Lower(value.s) \in {S_true, S_false}
    THEN PyBool(Lower(value.s) = S_true)
    ELSE value

\* adapted_op of the first loop: path and value are set when not None
AdaptedOp(op) ==
    [op |-> LowerWord(op.op)]
        @@ (IF op.path.given THEN [path |-> op.path] ELSE EmptyDict)
        @@ (IF op.value.t # "none" THEN [value |-> AdaptValue(op.value)] ELSE EmptyDict)

\* a first loop that copies every operation
AdaptedOperationsAll(ops) == [i \in 1..Len(ops) |-> AdaptedOp(ops[i])]

\* adapted_operations after the first loop
AdaptedOperations(ops) == [i \in 1..Len(SelectSeq(ops, LAMBDA o : ~IsFilteredAdd(o))) |->
                              AdaptedOp(SelectSeq(ops, LAMBDA o : ~IsFilteredAdd(o))[i])]

\* add_operations_to_convert
AddOperationsToConvert(ops) == SelectSeq(ops, IsFilteredAdd)

RECURSIVE BasePaths(_, _)
\* the keys of operations_by_path, in insertion order
BasePaths(ops, seen) ==
    IF ops = <<>> THEN seen
    ELSE IF \E i \in 1..Len(seen) : seen[i] = Head(ops).path.base
         THEN BasePaths(Tail(ops), seen)
         ELSE BasePaths(Tail(ops), Append(seen, Head(ops).path.base))

\* str.strip('"\'') of a literal
RECURSIVE StripQuotes(_)
StripQuotes(s) ==
    IF s # <<>> /\ Head(s) \in {"\"", "'"} THEN StripQuotes(Tail(s))
    ELSE IF s # <<>> /\ s[Len(s)] \in {"\"", "'"} THEN StripQuotes(SubSeq(s, 1, Len(s) - 1))
    ELSE s

\* d[key] = value
DictSet(d, key, value) == [k \in DOMAIN d \cup {key} |-> IF k = key THEN value ELSE d[k]]

\* d.update(other)
DictUpdate(d, other) ==
    [k \in DOMAIN d \cup DOMAIN other |-> IF k \in DOMAIN other THEN other[k] ELSE d[k]]

\* the item the search loop finds: the first dict with item.get(field) == value
Matches(item, field, value) == item.t = "dict" /\ PyEq(DictGet(item.d, field), PyStr(value))

\* one add operation applied to updated_array; raised when the unpacking of
\* filter_part.split(' eq ') fails
ApplyAdd(updated_array, op) ==
    IF Len(op.path.literals) = 0 THEN [raised |-> FALSE, array |-> updated_array]
    ELSE IF Len(op.path.literals) > 1 THEN [raised |-> TRUE, array |-> updated_array]
    ELSE LET filter_field == op.path.field
             filter_value == StripQuotes(op.path.literals[1])
             field_part == op.path.sub
             found == {i \in 1..Len(updated_array) :
                          Matches(updated_array[i], filter_field, filter_value)}
         IN  IF found # {}
             THEN LET i == CHOOSE i \in found : \A j \in found : i <= j
                      existing_item == updated_array[i].d
                      updated == IF field_part # "" THEN DictSet(existing_item, field_part, op.value)
                                 ELSE IF op.value.t = "dict" THEN DictUpdate(existing_item, op.value.d)
                                 ELSE existing_item
                  IN  [raised |-> FALSE,
                       array |-> [updated_array EXCEPT ![i] = PyDict(updated)]]
             ELSE LET new_item == [k \in {filter_field} |-> PyStr(filter_value)]
                      filled == IF field_part # "" THEN DictSet(new_item, field_part, op.value)
                                ELSE IF op.value.t = "dict" THEN DictUpdate(new_item, op.value.d)
                                ELSE DictSet(new_item, "value", op.value)
                  IN  [raised |-> FALSE, array |-> Append(updated_array, PyDict(filled))]

RECURSIVE ApplyAdds(_, _)
\* the loop over the operations of one base path
ApplyAdds(updated_array, ops) ==
    IF ops = <<>> THEN [raised |-> FALSE, array |-> updated_array]
    ELSE LET one == ApplyAdd(updated_array, Head(ops)) IN
         IF one.raised THEN one ELSE ApplyAdds(one.array, Tail(ops))

ReplaceOp(base_path, updated_array) ==
    [op |-> "replace", path |-> PlainPath(base_path), value |-> PyList(updated_array)]

RECURSIVE ConvertGroups(_, _, _, _)
\* the loop over operations_by_path: the replace operations appended to
\* adapted_operations, up to the first exception
ConvertGroups(current_user_dict, to_convert, bases, adapted) ==
    IF bases = <<>> THEN adapted
    ELSE LET base_path == Head(bases)
             ops == SelectSeq(to_convert, LAMBDA o : o.path.base = base_path)
             current == DictGet(current_user_dict, base_path)
             current_array == IF current.t = "list" THEN current.items ELSE <<>>
             done == ApplyAdds(current_array, ops)
         IN  IF done.raised THEN adapted
             ELSE ConvertGroups(current_user_dict, to_convert, Tail(bases),
                                Append(adapted, ReplaceOp(base_path, done.array)))

\* the try block of _adapt_patch_for_upstream after get_user returned
ConvertAdds(current_user_dict, ops, adapted) ==
    ConvertGroups(current_user_dict, AddOperationsToConvert(ops),
                  BasePaths(AddOperationsToConvert(ops), <<>>), adapted)

NoException == [type |-> "none", status_code |-> 0, scim_type |-> "none"]

\* an except clause that lets the exception go on to patch_user
AdapterExceptReraises(raised) == raised

\* the except clause of _adapt_patch_for_upstream: the exception is logged and
\* nothing leaves the adapter
AdapterExcept(raised) == NoException

\* whether the try block raises after get_user returned
ConvertRaises(ops) ==
    \E i \in 1..Len(ops) : IsFilteredAdd(ops[i]) /\ Len(ops[i].path.literals) > 1

PatchOpSchema == "urn:ietf:params:scim:api:messages:2.0:PatchOp"
PatchOpSchemaTypo == "urn:ietf:params:scim:api:messages: 2.0:PatchOp"

\* the schema correction
FixSchemas(schemas) ==
    [i \in 1..Len(schemas) |-> IF schemas[i] = PatchOpSchemaTypo THEN PatchOpSchema ELSE schemas[i]]

\* the dict _adapt_patch_for_upstream returns
PatchData(schemas, adapted_operations) ==
    [schemas |-> FixSchemas(schemas), Operations |-> adapted_operations]

\* the validation loop of patch_user (patch_group has none): an HTTPException(400)
\* is raised inside the try block
PatchValidationRaises(r) ==
    /\ r.rt = "/Users"
    /\ \E i \in 1..Len(r.Operations) :
          /\ r.Operations[i].op \in {"replace", "add"}
          /\ r.Operations[i].value.t = "none"
          /\ ~r.Operations[i].path.given

\* a phone number and an e-mail address a client sends
S_phone1 == <<"+", "1">>
S_phone2 == <<"+", "2">>
S_False == <<"F", "a", "l", "s", "e">>

\* a user with one home phone number
UserDave ==
    [id |-> PyStr(<<"7">>), schemas |-> PyList(<<PyStr(S_UserSchema)>>),
     userName |-> PyStr(S_Bob),
     phoneNumbers |-> PyList(<<PyDict([type |-> PyStr(S_home), value |-> PyStr(S_phone1)])>>)]

\* a user whose home phone number is the one OpAddHomePhone sets
UserErin ==
    [id |-> PyStr(<<"8">>), schemas |-> PyList(<<PyStr(S_UserSchema)>>),
     userName |-> PyStr(S_carol),
     phoneNumbers |-> PyList(<<PyDict([type |-> PyStr(S_home), value |-> PyStr(S_phone2)])>>)]

\* the documents the upstream holds for the user a PATCH names
PatchDocs == <<UserAlice, UserDave, UserErin>>

OpReplaceActive == PatchOperation("replace", PlainPath("active"), PyStr(S_False))
OpAddWorkPhone ==
    PatchOperation("add", FilteredPath("phoneNumbers", "type", <<Quoted(S_work)>>, "value"),
                   PyStr(S_phone2))
OpAddHomePhone ==
    PatchOperation("Add", FilteredPath("phoneNumbers", "type", <<Quoted(S_home)>>, "value"),
                   PyStr(S_phone2))
OpAddWorkEmail ==
    PatchOperation("add", FilteredPath("emails", "type", <<Quoted(S_work)>>, ""),
                   PyDict([value |-> PyStr(S_bx)]))
OpRemoveWorkEmail ==
    PatchOperation("remove", FilteredPath("emails", "type", <<Quoted(S_work)>>, ""), PyNone)
OpAddNothing == PatchOperation("add", NoPath, PyNone)
OpAddDisplayName == PatchOperation("add", PlainPath("displayName"), PyStr(S_boss))
\* phoneNumbers[type eq "work" eq "home"].value
OpAddTwoEq ==
    PatchOperation("add", FilteredPath("phoneNumbers", "type",
                                       <<Quoted(S_work), Quoted(S_home)>>, "value"),
                   PyStr(S_phone1))

\* phoneNumbers[type ne "work"].value: the text between the brackets holds no ' eq '
OpAddNoEq ==
    PatchOperation("add", FilteredPath("phoneNumbers", "type ne \"work\"", <<>>, "value"),
                   PyStr(S_phone1))

PatchOps == {OpReplaceActive, OpAddWorkPhone, OpAddHomePhone, OpAddWorkEmail, OpRemoveWorkEmail,
             OpAddNothing, OpAddDisplayName, OpAddTwoEq, OpAddNoEq}

\* the largest number of operations in a PATCH
MaxOps == 2

RECURSIVE OpSeqs(_)
OpSeqs(n) ==
    IF n = 0 THEN {<<>>}
    ELSE OpSeqs(n - 1) \cup {Append(s, o) : s \in OpSeqs(n - 1), o \in PatchOps}

PatchRequest(rt, schemas, ops) ==
    [kind |-> "patch", rt |-> rt, schemas |-> schemas, Operations |-> ops]

PatchRequests ==
    {PatchRequest("/Users", schemas, ops) :
        schemas \in {<<PatchOpSchema>>, <<PatchOpSchemaTypo>>}, ops \in OpSeqs(MaxOps) \ {<<>>}}

\* the upstream's answers to the GET of the adapter
GetAnswers ==
    {GetAnswer(a, 0) : a \in {Transport, Status(404, FALSE), Status(500, FALSE), Status(200, FALSE)}}
    \cup {GetAnswer(Status(200, TRUE), d) : d \in 1..Len(PatchDocs)}

\* the upstream's answers to a by-id call
ByIdAnswers == {GetAnswer(a, 0) : a \in Answers}

\* proxy_service.patch_user(user_id, patch_data, headers)
PatchCall(r, adapted_operations) ==
    UpstreamCall("PATCH", <<r.rt, "id">>, EmptyDict, PatchData(r.schemas, adapted_operations))

-----------------------------------------------------------------------------
(* The state machine.  One client request is handled at a time; a handler   *)
(* runs from the request to its first upstream call, and from each answer   *)
(* to its next call or to the response.                                     *)

NoRequest == [kind |-> "none"]

\* the handlers that run at once
Tasks == {1, 2}

\* a handler that has not started
IdleTask ==
    [pc |-> "idle", filter |-> NoFilter, parsed |-> PyNone, resources |-> <<>>,
     Operations |-> <<>>, read |-> FALSE, patch_ops |-> <<>>, response |-> NoResponse]

Init ==
    /\ pc = "idle"
    /\ req = NoRequest
    /\ inflight = <<>>
    /\ calls = <<>>
    /\ answers = <<>>
    /\ all_users = <<>>
    /\ start_index = 1
    /\ patch_ops = <<>>
    /\ log = {}
    /\ response = NoResponse
    /\ returned = PyNone
    /\ tasks = [t \in Tasks |-> IdleTask]
    /\ running = 0
    /\ tokens = <<>>
    /\ position = 0
    /\ upstream = UserDave

\* the handler awaits the call
Issue(call) ==
    /\ inflight' = <<call>>
    /\ calls' = Append(calls, call)
    /\ UNCHANGED answers

\* the awaited call returns
Receive(answer) == answers' = Append(answers, answer)

\* the handler awaits its next call
ThenCall(call) ==
    /\ inflight' = <<call>>
    /\ calls' = Append(calls, call)

NoMoreCalls ==
    /\ inflight' = <<>>
    /\ UNCHANGED calls

\* the handler returns or raises: the client gets its response
Respond(resp) ==
    /\ response' = resp
    /\ pc' = "done"

\* list_users with a filter that parse() rejects
ListUsersInvalidFilter(r) ==
    /\ pc = "idle"
    /\ r.filter.given
    /\ ~Parsed[r.filter].ok
    /\ req' = r
    /\ Respond(HttpExceptionHandler(ListUsersRaise(InvalidFilterError)))
    /\ log' = log \cup {"info", "error"}
    /\ UNCHANGED <<inflight, calls, answers, all_users, start_index, patch_ops, returned, concurrent>>

\* list_users with a filter that parses, up to the first get_users of
\* get_all_users_for_filtering
ListUsersFiltered(r) ==
    /\ pc = "idle"
    /\ r.filter.given
    /\ Parsed[r.filter].ok
    /\ req' = r
    /\ pc' = "backfill"
    /\ all_users' = <<>>
    /\ start_index' = 1
    /\ Issue(BackfillCall(r, 1))
    /\ log' = log \cup {"info"}
    /\ UNCHANGED <<patch_ops, response, returned, concurrent>>

\* the rest of list_users once get_all_users_for_filtering has returned
\* what it holds, cut to max_results
BackfillAnswered(page) ==
    /\ Receive(page)
    /\ \E turn \in {BackfillTurn(all_users, start_index, page)} :
          /\ start_index' = turn.start_index
          /\ IF turn.again /\ Len(turn.all_users) < MaxFetch(req.count)
             THEN /\ all_users' = turn.all_users
                  /\ ThenCall(BackfillCall(req, turn.start_index))
                  /\ UNCHANGED <<pc, response>>
             ELSE \E working \in {Prefix(turn.all_users, MaxFetch(req.count))} :
                  /\ all_users' = working
                  /\ NoMoreCalls
                  /\ Respond(FilteredListResponse(req, working))

\* the upstream answers a page request: the loop of get_all_users_for_filtering
\* goes on to its next request, or list_users filters, slices and responds
BackfillAnswer ==
    /\ pc = "backfill"
    /\ \E page \in PageAnswers(start_index, Len(all_users)) : BackfillAnswered(page)
    /\ UNCHANGED <<req, patch_ops, log, returned, concurrent>>

\* list_users without a filter, up to its get_users
ListUsersPlain(r) ==
    /\ pc = "idle"
    /\ ~r.filter.given
    /\ req' = r
    /\ pc' = "list"
    /\ Issue(UpstreamCall("GET", <<r.rt>>, GetUsersParams(r.start_index, r.count, <<>>, <<>>),
                          NoBody))
    /\ log' = log \cup {"info"}
    /\ UNCHANGED <<all_users, start_index, patch_ops, response, returned, concurrent>>

\* list_users without a filter, from the answer of get_users to the response
PlainListAnswered(page) ==
    /\ Receive(page)
    /\ NoMoreCalls
    /\ LET exc == ServiceCall("list", page.answer)
           loaded == [i \in 1..page.n |-> ParseResource(PageResources(page)[i], req.as_model)]
       IN  IF exc.type = "none"
           THEN /\ Respond(Success(200, ListBody(page.total, page.first,
                              ApplyAttributeFiltering(loaded, req.attributes,
                                                      req.excluded_attributes))))
                /\ UNCHANGED log
           ELSE /\ Respond(HttpExceptionHandler(RouterExcept(exc)))
                /\ log' = log \cup {"error"}

PlainListAnswer ==
    /\ pc = "list"
    /\ \E page \in PageAnswers(req.start_index, 0) : PlainListAnswered(page)
    /\ UNCHANGED <<req, all_users, start_index, patch_ops, returned, concurrent>>

SimpleVerbs == {"get", "create", "update", "delete"}

SimpleRequest(verb, rt) == [kind |-> "simple", verb |-> verb, rt |-> rt]

Method(verb) ==
    CASE verb = "get" -> "GET" [] verb = "create" -> "POST" [] verb = "update" -> "PUT"
      [] verb = "delete" -> "DELETE" [] verb = "patch" -> "PATCH"

\* the status code of the route
RouteStatus(verb) ==
    CASE verb = "create" -> 201 [] verb = "delete" -> 204 [] OTHER -> 200

\* get_user, create_user, update_user, delete_user (and the Group twins), up
\* to the call of the service
SimpleCall(r) ==
    /\ pc = "idle"
    /\ req' = r
    /\ pc' = "simple"
    /\ Issue(UpstreamCall(Method(r.verb), IF r.verb = "create" THEN <<r.rt>> ELSE <<r.rt, "id">>,
                          EmptyDict, NoBody))
    /\ UNCHANGED <<all_users, start_index, patch_ops, log, response, returned, concurrent>>

\* the same handlers from the answer of the service to the response
SimpleAnswered(answer) ==
    /\ Receive(answer)
    /\ NoMoreCalls
    /\ LET exc == ServiceCall(req.verb, answer.answer) IN
       IF exc.type = "none"
       THEN /\ Respond(Success(RouteStatus(req.verb), PyNone))
            /\ UNCHANGED log
       ELSE /\ Respond(HttpExceptionHandler(RouterExcept(exc)))
            /\ log' = log \cup {"error"}

SimpleAnswer ==
    /\ pc = "simple"
    /\ \E answer \in ByIdAnswers : SimpleAnswered(answer)
    /\ UNCHANGED <<req, all_users, start_index, patch_ops, returned, concurrent>>

\* patch_user up to its first upstream call: the validation loop, the first
\* loop of _adapt_patch_for_upstream, then get_user when there are filtered
\* adds and patch_user of the service when there are none
PatchUser(r) ==
    /\ pc = "idle"
    /\ req' = r
    /\ UNCHANGED <<all_users, start_index, returned, concurrent>>
    /\ IF PatchValidationRaises(r)
       THEN /\ Respond(HttpExceptionHandler(RouterExcept(HTTPException(400))))
            /\ log' = log \cup {"info", "error"}
            /\ UNCHANGED <<inflight, calls, answers, patch_ops>>
       ELSE /\ patch_ops' = AdaptedOperations(r.Operations)
            /\ log' = log \cup {"info"}
            /\ UNCHANGED response
            /\ IF AddOperationsToConvert(r.Operations) # <<>>
               THEN /\ pc' = "patch_get"
                    /\ Issue(UpstreamCall("GET", <<r.rt, "id">>, EmptyDict, NoBody))
               ELSE /\ pc' = "patch"
                    /\ Issue(PatchCall(r, AdaptedOperations(r.Operations)))

\* the try block of _adapt_patch_for_upstream from the answer of get_user on,
\* its except clause, and patch_user up to the call of the service
PatchGetAnswered(answer) ==
    /\ Receive(answer)
    /\ LET exc == ServiceCall("get", answer.answer)
           converted == IF exc.type = "none"
                        THEN ConvertAdds(UserDump(PatchDocs[answer.doc]), req.Operations, patch_ops)
                        ELSE patch_ops
           raised == IF exc.type = "none" /\ ConvertRaises(req.Operations)
                     THEN [type |-> "ValueError", status_code |-> 0, scim_type |-> "none"]
                     ELSE exc
           leaves == IF raised.type = "none" THEN raised ELSE AdapterExcept(raised)
       IN  /\ patch_ops' = converted
           /\ IF leaves.type = "none"
              THEN /\ log' = log \cup (IF raised.type # "none" THEN {"error", "warning"} ELSE {})
                   /\ ThenCall(PatchCall(req, converted))
                   /\ pc' = "patch"
                   /\ UNCHANGED response
              ELSE /\ log' = log \cup {"error"}
                   /\ NoMoreCalls
                   /\ Respond(HttpExceptionHandler(RouterExcept(leaves)))

PatchGetAnswer ==
    /\ pc = "patch_get"
    /\ \E answer \in GetAnswers : PatchGetAnswered(answer)
    /\ UNCHANGED <<req, all_users, start_index, returned, concurrent>>

\* patch_user from the answer of the service to the response
PatchAnswered(answer) ==
    /\ Receive(answer)
    /\ NoMoreCalls
    /\ LET exc == ServiceCall("patch", answer.answer) IN
       IF exc.type = "none"
       THEN /\ Respond(Success(RouteStatus("patch"), PyNone))
            /\ UNCHANGED log
       ELSE /\ Respond(HttpExceptionHandler(RouterExcept(exc)))
            /\ log' = log \cup {"error"}

PatchAnswer ==
    /\ pc = "patch"
    /\ \E answer \in ByIdAnswers : PatchAnswered(answer)
    /\ UNCHANGED <<req, all_users, start_index, patch_ops, returned, concurrent>>

\* the list requests of the clients: every filter with every count and
\* startIndex, and the projections with some of them
ListRequests ==
    {ListRequest("/Users", f, <<>>, <<>>, s, c, TRUE) :
        f \in Filters \cup {NoFilter}, s \in 1..MaxStartIndex, c \in Counts}
    \cup {ListRequest("/Users", f, a, e, 1, PageCount, m) :
            f \in {FilterUserNameEq, FilterWorkEmailValue, NoFilter}, a \in AttributeLists,
            e \in ExcludedLists, m \in BOOLEAN}

SimpleRequests == {SimpleRequest(verb, rt) : verb \in SimpleVerbs, rt \in ResourceTypes}

Next ==
    \/ \E r \in ListRequests : ListUsersInvalidFilter(r)
    \/ \E r \in ListRequests : ListUsersFiltered(r)
    \/ BackfillAnswer
    \/ \E r \in ListRequests : ListUsersPlain(r)
    \/ PlainListAnswer
    \/ \E r \in SimpleRequests : SimpleCall(r)
    \/ SimpleAnswer
    \/ \E r \in PatchRequests : PatchUser(r)
    \/ PatchGetAnswer
    \/ PatchAnswer

Spec == Init /\ [][Next]_vars

-----------------------------------------------------------------------------
(* Properties.                                                              *)

\* a list request whose filter parsed: the handler is in, or past, the backfill
FilteredList == req.kind = "list" /\ req.filter.given /\ Parsed[req.filter].ok

\* get_users returned a ListResponse for the answer
Succeeded(page) == ServiceCall("list", page.answer).type = "none"

RECURSIVE Fetched(_)
\* the concatenation of the pages the upstream delivered, in the order fetched
Fetched(pages) ==
    IF pages = <<>> THEN <<>>
    ELSE (IF Succeeded(Head(pages)) THEN PageResources(Head(pages)) ELSE <<>>)
             \o Fetched(Tail(pages))

\* the last answer received
LastAnswer == answers[Len(answers)]

\* C1: a list request whose filter is malformed is answered with HTTP 400 and
\* scimType "invalidFilter"
C1_MalformedFilterIs400 ==
    (pc = "done" /\ req.kind = "list" /\ req.filter.given /\ ~Parsed[req.filter].ok)
        => (response.status = 400 /\ response.scimType = "invalidFilter")

\* C2: for get, update and delete by id, an upstream answer with a
\* non-success status s gives the client the status s, and a transport failure
\* gives 502
C2_UpstreamStatusKept ==
    (pc = "done" /\ req.kind = "simple" /\ req.verb # "create")
        => IF LastAnswer.answer.kind = "transport" THEN response.status = 502
           ELSE (LastAnswer.answer.code \notin SuccessCodes(req.verb)
                    => response.status = LastAnswer.answer.code)

\* an element of the user's emails is a work e-mail that is primary and has a value
HasPrimaryWorkEmail(doc) ==
    /\ "emails" \in DOMAIN doc
    /\ \E i \in 1..Len(doc.emails.items) :
          LET item == doc.emails.items[i].d IN
          /\ Equals(DictGet(item, "type"), PyStr(S_work))
          /\ PyEq(DictGet(item, "primary"), PyBool(TRUE))
          /\ DictGet(item, "value").t # "none"

\* C3: emails[type eq "work" and primary eq true].value, with or without a
\* trailing pr, selects exactly the users of the working set that have an
\* element of emails satisfying the predicate with value present
C3_ComplexMatchesElement ==
    (pc = "done" /\ req.kind = "list" /\ req.filter \in {FilterWorkEmail, FilterWorkEmailValue})
        => /\ response.status = 200
           /\ response.body.totalResults =
                 Cardinality({i \in 1..Len(all_users) : HasPrimaryWorkEmail(UpstreamDoc(all_users[i]))})

\* C4: no upstream page request of a filtered list carries attributes or
\* excludedAttributes
C4_NoProjectionUpstream ==
    FilteredList
        => \A i \in 1..Len(calls) :
              DOMAIN calls[i].params \cap {"attributes", "excludedAttributes"} = {}

\* C5: the working set a filtered list is computed from holds at most
\* min(count * filter_fetch_multiplier, max_filter_fetch_size) resources and is
\* a prefix of the concatenation of the pages fetched
C5_WorkingSetIsBoundedPrefix ==
    (FilteredList /\ pc = "done")
        => /\ Len(all_users) <= req.count * filter_fetch_multiplier
           /\ Len(all_users) <= max_filter_fetch_size
           /\ Len(all_users) <= Len(Fetched(answers))
           /\ all_users = SubSeq(Fetched(answers), 1, Len(all_users))
           /\ response = FilteredListResponse(req, all_users)

\* the cut happened: more was fetched than the working set holds
C5_Witness ==
    /\ FilteredList /\ pc = "done"
    /\ Len(all_users) = max_filter_fetch_size
    /\ Len(Fetched(answers)) > Len(all_users)
    /\ response.body.totalResults > 0

\* C6: a failure of the k-th page fetch ends the backfill: no further page is
\* requested, and the request is answered with 200 from exactly the pages
\* 1..k-1
C6_FailureEndsBackfill ==
    FilteredList
        => \A k \in 1..Len(answers) :
              ~Succeeded(answers[k])
                 => /\ k = Len(answers)
                    /\ Len(calls) = k
                    /\ inflight = <<>>
                    /\ pc = "done"
                    /\ response.status = 200
                    /\ all_users = Fetched(SubSeq(answers, 1, k - 1))
                    /\ response = FilteredListResponse(req, all_users)

\* the third page fetch failed and the answer holds matches of the first two
C6_Witness ==
    /\ FilteredList /\ pc = "done"
    /\ Len(answers) = 3
    /\ ~Succeeded(answers[3])
    /\ Len(all_users) = 2 * page_size
    /\ response.status = 200
    /\ response.body.totalResults > 0

\* C7: the response of a filtered list has totalResults = the number of
\* matches in the working set, startIndex = the requested one, Resources = the
\* matches startIndex .. startIndex + count - 1 in their order (each projected
\* as requested), and itemsPerPage = the length of Resources
C7_Pagination ==
    (FilteredList /\ pc = "done" /\ response.status = 200)
        => LET loaded == [i \in 1..Len(all_users) |-> ParseResource(all_users[i], req.as_model)]
               matched == ApplyFilter(loaded, Parsed[req.filter].node)
               offset == req.start_index - 1
               left == Len(matched) - offset
               n == IF left <= 0 THEN 0 ELSE IF left < req.count THEN left ELSE req.count
               body == response.body
           IN  /\ body.totalResults = Len(matched)
               /\ body.startIndex = req.start_index
               /\ Len(body.Resources) = n
               /\ \A i \in 1..n :
                     body.Resources[i] =
                        FilterUserAttributes(matched[offset + i], req.attributes,
                                             req.excluded_attributes)
               /\ body.itemsPerPage = Len(body.Resources)

\* a second page of one resource out of more than two matches
C7_Witness ==
    /\ FilteredList /\ pc = "done"
    /\ req.start_index = 2
    /\ req.attributes = <<>> /\ req.excluded_attributes = <<>>
    /\ response.status = 200
    /\ response.body.totalResults > 2
    /\ response.body.itemsPerPage = 1
    /\ response.body.Resources[1].d.id = PyStr(Digits(all_users[2]))

\* C8: when the backfill stops at the working size while the upstream had
\* more, a warning is logged and the request still succeeds
C8_TruncationIsLogged ==
    (FilteredList /\ pc = "done" /\ Len(answers) >= 1
        /\ Succeeded(LastAnswer) /\ LastAnswer.n = page_size
        /\ (LastAnswer.total = 0 \/ LastAnswer.total > Len(Fetched(answers)))
        /\ Len(Fetched(answers)) >= MaxFetch(req.count))
        => ("warning" \in log /\ response.status = 200)

\* the GET of the adapter was answered
RewriteGetAnswered == req.kind = "patch" /\ Len(answers) >= 1 /\ calls[1].method = "GET"

AddWithFilter(op) == op.op \in {"add", "Add", "ADD"} /\ op.path.given /\ op.path.filtered

\* C10: when the GET for a filtered-add rewrite fails, the PATCH sent upstream
\* holds no replace operation for a filtered-add group, and holds the
\* operations that are not adds with a filter, in the client's order
C10_FailedGetDropsGroups ==
    (RewriteGetAnswered /\ ServiceCall("get", answers[1].answer).type # "none")
        => LET kept == SelectSeq(req.Operations, LAMBDA o : ~AddWithFilter(o))
               sent == calls[2].body.Operations
           IN  /\ Len(calls) = 2
               /\ calls[2].method = "PATCH"
               /\ Len(sent) = Len(kept)
               /\ \A i \in 1..Len(sent) : sent[i] = AdaptedOp(kept[i])
               /\ \A i \in 1..Len(sent) :
                     ~(sent[i].op = "replace" /\ "value" \in DOMAIN sent[i]
                          /\ sent[i].value.t = "list")

\* a replace of active and a filtered add were sent, the GET failed, and the
\* PATCH sent holds the replace alone
C10_Witness ==
    /\ RewriteGetAnswered
    /\ answers[1].answer = Status(500, FALSE)
    /\ req.Operations = <<OpAddWorkPhone, OpReplaceActive>>
    /\ Len(calls) = 2
    /\ calls[2].body.Operations = <<AdaptedOp(OpReplaceActive)>>

\* the PATCH of the request is among the calls issued
PatchSent == req.kind = "patch" /\ \E i \in 1..Len(calls) : calls[i].method = "PATCH"

\* the Operations of the PATCH body sent upstream
SentOperations == calls[CHOOSE i \in 1..Len(calls) : calls[i].method = "PATCH"].body.Operations

\* the GET of the adapter returned the current user
RewriteGetSucceeded == RewriteGetAnswered /\ ServiceCall("get", answers[1].answer).type = "none"

\* the text between the brackets is one field, ' eq ', one literal
SingleEq(op) == Len(op.path.literals) = 1

\* a replace of the whole array at base_path is among the operations sent
ReplaceSentFor(base_path) ==
    \E j \in 1..Len(SentOperations) :
        /\ SentOperations[j].op = "replace"
        /\ "path" \in DOMAIN SentOperations[j]
        /\ SentOperations[j].path = PlainPath(base_path)

\* C11: when an operation of a group of filtered adds has a predicate that is
\* not of the form field eq literal, no replace operation is sent for the
\* group's base path
C11_UnparsedGroupDropped ==
    (RewriteGetAnswered /\ PatchSent)
        => \A i \in 1..Len(req.Operations) :
              (AddWithFilter(req.Operations[i]) /\ ~SingleEq(req.Operations[i]))
                  => ~ReplaceSentFor(req.Operations[i].path.base)

\* an operation the rewrite is not meant for: a remove with a filtered path,
\* or a filtered path whose predicate is more than field eq literal
OutOfScope(op) ==
    /\ op.path.given
    /\ op.path.filtered
    /\ (op.op \in {"remove", "Remove"} \/ ~SingleEq(op))

\* the operation is among the operations sent, with its path and its value
PassedThrough(op) ==
    \E j \in 1..Len(SentOperations) :
        /\ SentOperations[j].op = LowerWord(op.op)
        /\ "path" \in DOMAIN SentOperations[j]
        /\ SentOperations[j].path = op.path
        /\ IF op.value.t = "none"
           THEN "value" \notin DOMAIN SentOperations[j]
           ELSE "value" \in DOMAIN SentOperations[j] /\ SentOperations[j].value = op.value

\* C12: an operation outside the scope of the rewrite reaches the upstream
\* PATCH body with its path and its value, neither dropped nor rewritten
C12_OutOfScopePassesThrough ==
    PatchSent
        => \A i \in 1..Len(req.Operations) :
              OutOfScope(req.Operations[i]) => PassedThrough(req.Operations[i])

\* the document the upstream returned to the GET of the adapter
CurrentDoc == PatchDocs[answers[1].doc]

\* the array the upstream holds at base_path
StoredArray(base_path) ==
    IF base_path \in DOMAIN CurrentDoc /\ CurrentDoc[base_path].t = "list"
    THEN CurrentDoc[base_path].items
    ELSE <<>>

\* the value of the replace sent for base_path
ReplaceValueFor(base_path) ==
    SentOperations[CHOOSE j \in 1..Len(SentOperations) :
                       /\ SentOperations[j].op = "replace"
                       /\ "path" \in DOMAIN SentOperations[j]
                       /\ SentOperations[j].path = PlainPath(base_path)].value

\* the positions of the stored array whose element has element[field] = literal
StoredMatches(op) ==
    {k \in 1..Len(StoredArray(op.path.base)) :
        /\ StoredArray(op.path.base)[k].t = "dict"
        /\ DictGet(StoredArray(op.path.base)[k].d, op.path.field)
               = PyStr(StripQuotes(op.path.literals[1]))}

\* the element {field: literal, sub: value} of a filtered add
NewElement(op) ==
    PyDict([k \in {op.path.field, op.path.sub} |->
               IF k = op.path.sub THEN op.value ELSE PyStr(StripQuotes(op.path.literals[1]))])

\* the stored array with the add applied as the filtered-add scenario describes
ArrayWithAdd(op) ==
    IF StoredMatches(op) = {}
    THEN Append(StoredArray(op.path.base), NewElement(op))
    ELSE [StoredArray(op.path.base) EXCEPT
             ![CHOOSE k \in StoredMatches(op) : \A l \in StoredMatches(op) : k <= l] =
                 PyDict(DictSet(@.d, op.path.sub, op.value))]

\* the request is one filtered add base[field eq literal].sub
OneFilteredAdd ==
    /\ req.kind = "patch"
    /\ Len(req.Operations) = 1
    /\ AddWithFilter(req.Operations[1])
    /\ SingleEq(req.Operations[1])
    /\ req.Operations[1].path.sub # ""

\* C13: the replace sent for a filtered add holds the stored array, its
\* elements unchanged and in order, followed by the new element when none
\* matches, and with only the first matching element modified otherwise
C13_ReplaceIsArrayWithAdd ==
    (OneFilteredAdd /\ RewriteGetSucceeded /\ PatchSent)
        => /\ ReplaceSentFor(req.Operations[1].path.base)
           /\ ReplaceValueFor(req.Operations[1].path.base).t = "list"
           /\ ReplaceValueFor(req.Operations[1].path.base).items = ArrayWithAdd(req.Operations[1])

\* the client's operations that are not adds with a filtered path, in client order
ClientKept == SelectSeq(req.Operations, LAMBDA o : ~AddWithFilter(o))

\* the distinct base paths of the client's adds with a filtered path
ClientBasePaths ==
    {req.Operations[i].path.base :
        i \in {j \in 1..Len(req.Operations) : AddWithFilter(req.Operations[j])}}

\* every filtered add on base_path has a predicate field eq literal
GroupParses(base_path) ==
    \A i \in 1..Len(req.Operations) :
        (AddWithFilter(req.Operations[i]) /\ req.Operations[i].path.base = base_path)
            => SingleEq(req.Operations[i])

\* the number of replace operations for base_path after the first n operations sent
ReplacesAfter(n, base_path) ==
    Cardinality({j \in (n + 1)..Len(SentOperations) :
                    /\ SentOperations[j].op = "replace"
                    /\ "path" \in DOMAIN SentOperations[j]
                    /\ SentOperations[j].path = PlainPath(base_path)})

\* C14: when the GET of the current resource succeeds, the operations sent
\* are the client's operations that are not filtered adds, in client order,
\* followed by one replace for each base path of the filtered adds (stated
\* here for the base paths whose predicates are all field eq literal)
C14_SentIsKeptThenReplaces ==
    (RewriteGetSucceeded /\ PatchSent)
        => /\ Len(SentOperations) >= Len(ClientKept)
           /\ \A i \in 1..Len(ClientKept) : SentOperations[i] = AdaptedOp(ClientKept[i])
           /\ \A b \in ClientBasePaths :
                 GroupParses(b) => ReplacesAfter(Len(ClientKept), b) = 1

\* the stored array already holds an element with element[field] = literal
\* whose sub-attribute has the value of the add
AlreadyApplied(op) ==
    \E k \in StoredMatches(op) :
        DictGet(StoredArray(op.path.base)[k].d, op.path.sub) = op.value

\* C15: a filtered add applied to a resource whose array already holds the
\* element the add describes is sent as a replace whose value is the stored
\* array
C15_RewriteIsIdempotent ==
    (OneFilteredAdd /\ RewriteGetSucceeded /\ PatchSent /\ AlreadyApplied(req.Operations[1]))
        => /\ ReplaceSentFor(req.Operations[1].path.base)
           /\ ReplaceValueFor(req.Operations[1].path.base) = PyList(StoredArray(req.Operations[1].path.base))

\* the positions of the upstream PATCH among the calls of the request
PatchCalls == {i \in 1..Len(calls) : calls[i].method = "PATCH"}

\* the GET is issued only for a request with a filtered add, and every call
\* issued before the PATCH was answered before the PATCH was issued
ReadBeforeWrite ==
    /\ \A i \in 1..Len(calls) :
          calls[i].method = "GET"
              => \E j \in 1..Len(req.Operations) : AddWithFilter(req.Operations[j])
    /\ \A i \in PatchCalls : Len(answers) >= i - 1
    /\ \A i \in PatchCalls : \A j \in 1..Len(calls) : calls[j].method = "GET" => j < i

MalformedFilters == {FilterTruncated, FilterTrailing, FilterBadCharacter, FilterBlank}

\* C17: a list request with a malformed filter never issues an upstream
\* request
C17_MalformedFilterNoUpstream ==
    (req.kind = "list" /\ req.filter \in MalformedFilters)
        => /\ calls = <<>>
           /\ inflight = <<>>

\* a list request with a truncated filter was answered without a call
C17_Witness ==
    /\ req.kind = "list"
    /\ req.filter = FilterTruncated
    /\ pc = "done"
    /\ response # NoResponse
    /\ calls = <<>>

RECURSIVE NodeCount(_)
\* the number of nodes of an expression tree
NodeCount(expr) ==
    CASE expr.type = "Attribute" -> 1
      [] expr.type = "Group" -> 1 + NodeCount(expr.expression)
      [] expr.type = "Complex" -> 1 + NodeCount(expr.filter_expression)
      [] expr.type = "Logical" /\ expr.operator = "not" -> 1 + NodeCount(expr.left)
      [] OTHER -> 1 + NodeCount(expr.left) + NodeCount(expr.right)

\* the filter of the request has a tree of more than max_filter_complexity nodes
FilterTooComplex ==
    /\ req.kind = "list"
    /\ req.filter.given
    /\ Parsed[req.filter].ok
    /\ NodeCount(Parsed[req.filter].node) > max_filter_complexity

\* C18: a filter whose tree has more than max_filter_complexity nodes is
\* rejected: it is not evaluated, no page is fetched for it and the request
\* does not succeed
C18_ComplexFilterRejected ==
    FilterTooComplex
        => /\ calls = <<>>
           /\ pc = "done" => response.status # 200

-----------------------------------------------------------------------------
(* The functions of the proxy called on their own: the inputs are drawn     *)
(* from small sets, the call is kept in req and its value in returned.      *)

\* a user whose title is null
UserNullTitle ==
    [id |-> PyStr(<<"9">>), schemas |-> PyList(<<PyStr(S_UserSchema)>>),
     userName |-> PyStr(S_alice), title |-> PyNone]

\* a document without id and schemas
DocWithoutId == [userName |-> PyStr(S_Bob), title |-> PyStr(S_boss)]

\* the resources handed to the functions: plain dicts and User models
FunctionDocs == {UserAlice, UserBob, UserCarol, UserNullTitle}
FunctionResources ==
    {DictObject(d) : d \in FunctionDocs \cup {DocWithoutId}}
        \cup {ModelObject(UserDump(d)) : d \in FunctionDocs}

ProjectedLists == {<<>>, <<"userName">>, <<"title">>, <<"id", "emails">>, <<"userName", "nosuch">>}
ExcludedFromLists == {<<>>, <<"emails">>, <<"id", "emails">>, <<"schemas", "title">>}

\* _filter_user_attributes(user, attributes, excluded_attributes)
CallFilterUserAttributes ==
    /\ pc = "idle"
    /\ \E user \in FunctionResources, attributes \in ProjectedLists,
          excluded_attributes \in ExcludedFromLists :
          /\ req' = [kind |-> "project", user |-> user, attributes |-> attributes,
                     excluded_attributes |-> excluded_attributes]
          /\ returned' = FilterUserAttributes(user, attributes, excluded_attributes)
    /\ pc' = "done"
    /\ UNCHANGED <<inflight, calls, answers, all_users, start_index, patch_ops, log, response,
                 concurrent>>

Operators == {"eq", "ne", "co", "sw", "ew", "gt", "ge", "lt", "le", "pr"}
AttributePaths == {<<"userName">>, <<"title">>, <<"active">>, <<"emails">>, <<"nosuch">>,
                   <<"name", "givenName">>}
ComparisonValues == {PyStr(S_alice), PyBool(TRUE), PyInt(1), PyNone}

\* FilterEngine._evaluate_attribute_expression(expr, resource)
CallEvaluateAttributeExpression ==
    /\ pc = "idle"
    /\ \E resource \in FunctionResources, attribute \in AttributePaths,
          operator \in Operators, value \in ComparisonValues :
          /\ req' = [kind |-> "evaluate", resource |-> resource,
                     expr |-> AttributeExpression(attribute, operator, value)]
          /\ returned' = PyBool(EvaluateAttributeExpression(
                                    resource, AttributeExpression(attribute, operator, value)))
    /\ pc' = "done"
    /\ UNCHANGED <<inflight, calls, answers, all_users, start_index, patch_ops, log, response,
                 concurrent>>

\* a user whose second e-mail holds a key that takes the place of the
\* constructor of the temporary class
UserMallory ==
    [id |-> PyStr(<<"7">>), schemas |-> PyList(<<PyStr(S_UserSchema)>>),
     userName |-> PyStr(S_carol),
     emails |-> PyList(<<PyDict([type |-> PyStr(S_home), value |-> PyStr(S_hx)]),
                         PyDict([type |-> PyStr(S_work), value |-> PyStr(S_wx),
                                 __init__ |-> PyStr(S_boss)])>>)]

\* userName eq "alice" or emails[type eq "work"]
FilterAliceOrWorkEmail ==
    FilterString(FilterUserNameEq.toks \o <<Tok("LOGICAL", <<"or">>)>> \o FilterWorkEmailNoSub.toks)

\* emails[not (type eq "work")]
FilterNotWorkEmail ==
    FilterString(<<Tok("ATTRIBUTE", <<"emails">>), Tok("LBRACKET", <<"[">>),
                   Tok("LOGICAL", <<"not">>), Tok("LPAREN", <<"(">>),
                   Tok("ATTRIBUTE", <<"type">>), Tok("OPERATOR", <<"eq">>),
                   Tok("STRING", Quoted(S_work)), Tok("RPAREN", <<")">>),
                   Tok("RBRACKET", <<"]">>)>>)

\* the trees apply_filter is called with
AppliedFilters == {FilterUserNameEq, FilterWorkEmailNoSub, FilterTitleOrInactive,
                   FilterAliceOrWorkEmail, FilterNotWorkEmail}

\* the resources of a working set
WorkingResources ==
    {DictObject(UserAlice), DictObject(UserBob), DictObject(UserMallory),
     ModelObject(UserDump(UserAlice))}

\* the longest working set apply_filter is called with
MaxResources == 3

\* FilterEngine.apply_filter(resources, filter_expr)
CallApplyFilter ==
    /\ pc = "idle"
    /\ \E n \in 1..MaxResources :
          \E resources \in [1..n -> WorkingResources], filter \in AppliedFilters :
              /\ Parse(filter).ok
              /\ req' = [kind |-> "apply_filter", resources |-> resources,
                         filter_expr |-> Parse(filter).node]
              /\ returned' = PyList(ApplyFilter(resources, Parse(filter).node))
    /\ pc' = "done"
    /\ UNCHANGED <<inflight, calls, answers, all_users, start_index, patch_ops, log, response,
                 concurrent>>

\* the tokens the filters handed to parse are made of
TokenAlphabet ==
    {Tok("ATTRIBUTE", <<"a">>), Tok("OPERATOR", <<"eq">>), Tok("OPERATOR", <<"pr">>),
     Tok("NUMBER", <<"1">>), Tok("LOGICAL", <<"and">>), Tok("LOGICAL", <<"not">>),
     Tok("LPAREN", <<"(">>), Tok("RPAREN", <<")">>),
     Tok("LBRACKET", <<"[">>), Tok("RBRACKET", <<"]">>)}

\* the longest of these filters, in tokens
MaxTokens == 4

\* emails[type eq "work"
FilterUnclosedBracket ==
    FilterString(SubSeq(FilterWorkEmailNoSub.toks, 1, Len(FilterWorkEmailNoSub.toks) - 1))

\* "work" eq userName
FilterValueFirst ==
    FilterString(<<Tok("STRING", Quoted(S_work)), Tok("OPERATOR", <<"eq">>),
                   Tok("ATTRIBUTE", <<"userName">>)>>)

\* userName eq and userName pr
FilterNoOperand ==
    FilterString(<<Tok("ATTRIBUTE", <<"userName">>), Tok("OPERATOR", <<"eq">>),
                   Tok("LOGICAL", <<"and">>), Tok("ATTRIBUTE", <<"userName">>),
                   Tok("OPERATOR", <<"pr">>)>>)

\* a eq 1 and b eq 2 or c eq 3
FilterAndOr ==
    FilterString(<<Tok("ATTRIBUTE", <<"a">>), Tok("OPERATOR", <<"eq">>), Tok("NUMBER", <<"1">>),
                   Tok("LOGICAL", <<"and">>),
                   Tok("ATTRIBUTE", <<"b">>), Tok("OPERATOR", <<"eq">>), Tok("NUMBER", <<"2">>),
                   Tok("LOGICAL", <<"or">>),
                   Tok("ATTRIBUTE", <<"c">>), Tok("OPERATOR", <<"eq">>), Tok("NUMBER", <<"3">>)>>)

\* not a pr and b pr
FilterNotAnd ==
    FilterString(<<Tok("LOGICAL", <<"not">>), Tok("ATTRIBUTE", <<"a">>), Tok("OPERATOR", <<"pr">>),
                   Tok("LOGICAL", <<"and">>), Tok("ATTRIBUTE", <<"b">>), Tok("OPERATOR", <<"pr">>)>>)

\* a pr or b pr and c pr
FilterOrAnd ==
    FilterString(<<Tok("ATTRIBUTE", <<"a">>), Tok("OPERATOR", <<"pr">>), Tok("LOGICAL", <<"or">>),
                   Tok("ATTRIBUTE", <<"b">>), Tok("OPERATOR", <<"pr">>), Tok("LOGICAL", <<"and">>),
                   Tok("ATTRIBUTE", <<"c">>), Tok("OPERATOR", <<"pr">>)>>)

\* a pr or b pr or c pr, and the same with and
FilterOrOr ==
    FilterString(<<Tok("ATTRIBUTE", <<"a">>), Tok("OPERATOR", <<"pr">>), Tok("LOGICAL", <<"or">>),
                   Tok("ATTRIBUTE", <<"b">>), Tok("OPERATOR", <<"pr">>), Tok("LOGICAL", <<"or">>),
                   Tok("ATTRIBUTE", <<"c">>), Tok("OPERATOR", <<"pr">>)>>)
FilterAndAnd ==
    FilterString(<<Tok("ATTRIBUTE", <<"a">>), Tok("OPERATOR", <<"pr">>), Tok("LOGICAL", <<"and">>),
                   Tok("ATTRIBUTE", <<"b">>), Tok("OPERATOR", <<"pr">>), Tok("LOGICAL", <<"and">>),
                   Tok("ATTRIBUTE", <<"c">>), Tok("OPERATOR", <<"pr">>)>>)

\* the filters handed to parse, besides every token list up to MaxTokens: the
\* filters of the requests
ParsedFilters ==
    Filters
        \cup {FilterUnclosedBracket, FilterValueFirst, FilterNoOperand, FilterAndOr, FilterNotAnd,
              FilterOrAnd, FilterOrOr, FilterAndAnd, FilterAliceOrWorkEmail, FilterNotWorkEmail}

\* FilterParser.parse(filter_string)
CallParse ==
    /\ pc = "idle"
    /\ \E n \in 0..MaxTokens :
          \E filter \in IF n = 0 THEN ParsedFilters
                         ELSE {FilterString(toks) : toks \in [1..n -> TokenAlphabet]} :
              /\ req' = [kind |-> "parse", filter |-> filter]
              /\ returned' = Parse(filter)
    /\ pc' = "done"
    /\ UNCHANGED <<inflight, calls, answers, all_users, start_index, patch_ops, log, response,
                 concurrent>>

\* the name of the member of FilterOperator or LogicalOperator with this value
MemberName(value) ==
    CASE value = "eq" -> "EQ" [] value = "ne" -> "NE" [] value = "co" -> "CO"
      [] value = "sw" -> "SW" [] value = "ew" -> "EW" [] value = "gt" -> "GT"
      [] value = "ge" -> "GE" [] value = "lt" -> "LT" [] value = "le" -> "LE"
      [] value = "pr" -> "PR" [] value = "and" -> "AND" [] value = "or" -> "OR"
      [] value = "not" -> "NOT"

\* the tokens of f"{self.operator}": the value of the member where format()
\* of a str-based Enum is the format of its value, and the qualified name of
\* the member (an attribute path for _tokenize) where it is Enum.__str__
OperatorTokens(class, kind, operator, member_names) ==
    IF member_names THEN <<Tok("ATTRIBUTE", <<class, MemberName(operator)>>)>>
    ELSE <<Tok(kind, <<operator>>)>>

\* the tokens of repr(self.value): a str is quoted with ' unless it holds a '
\* and no ", and _tokenize has no pattern for '
ReprTokens(value) ==
    CASE value.t = "str" ->
            IF (\E i \in 1..Len(value.s) : value.s[i] = "'")
                   /\ ~(\E i \in 1..Len(value.s) : value.s[i] = "\"")
            THEN <<Tok("STRING", Quoted(value.s))>>
            ELSE <<Tok("INVALID", <<"'">>)>>
      [] value.t = "bool" -> <<Tok("BOOLEAN", <<IF value.b THEN "True" ELSE "False">>)>>
      [] value.t = "int" ->
            IF value.n >= 0 THEN <<Tok("NUMBER", Digits(value.n))>>
            ELSE <<Tok("NUMBER", <<"-">> \o Digits(-value.n))>>
      [] OTHER -> <<Tok("ATTRIBUTE", <<"None">>)>>

RECURSIVE Rendered(_, _)
\* _tokenize(str(expr)): the tokens of the __str__ of an expression
Rendered(expr, member_names) ==
    CASE expr.type = "Attribute" ->
            IF expr.operator = "pr"
            THEN <<Tok("ATTRIBUTE", expr.attribute), Tok("OPERATOR", <<"pr">>)>>
            ELSE <<Tok("ATTRIBUTE", expr.attribute)>>
                     \o OperatorTokens("FilterOperator", "OPERATOR", expr.operator, member_names)
                     \o ReprTokens(expr.value)
      [] expr.type = "Group" ->
            <<Tok("LPAREN", <<"(">>)>> \o Rendered(expr.expression, member_names)
                \o <<Tok("RPAREN", <<")">>)>>
      [] expr.type = "Complex" ->
            <<Tok("ATTRIBUTE", expr.attribute), Tok("LBRACKET", <<"[">>)>>
                \o Rendered(expr.filter_expression, member_names)
                \o <<Tok("RBRACKET", <<"]">>)>>
                \o (IF expr.sub_attribute = NoSub THEN <<>>
                    ELSE <<Tok("DOT", <<".">>), Tok("ATTRIBUTE", expr.sub_attribute)>>)
      [] expr.type = "Logical" /\ expr.operator = "not" ->
            <<Tok("LOGICAL", <<"not">>), Tok("LPAREN", <<"(">>)>>
                \o Rendered(expr.left, member_names) \o <<Tok("RPAREN", <<")">>)>>
      [] OTHER ->
            <<Tok("LPAREN", <<"(">>)>> \o Rendered(expr.left, member_names)
                \o OperatorTokens("LogicalOperator", "LOGICAL", expr.operator, member_names)
                \o Rendered(expr.right, member_names) \o <<Tok("RPAREN", <<")">>)>>

\* filter_parser.parse(str(filter_parser.parse(filter_string)))
CallParseRendered ==
    /\ pc = "idle"
    /\ \E n \in 0..MaxTokens, member_names \in BOOLEAN :
          \E filter \in IF n = 0 THEN ParsedFilters \ {FilterManyNodes}
                         ELSE {FilterString(toks) : toks \in [1..n -> TokenAlphabet]} :
              /\ Parse(filter).ok
              /\ req' = [kind |-> "parse_rendered", filter |-> filter,
                         tree |-> Parse(filter).node, member_names |-> member_names]
              /\ returned' = Parse(FilterString(Rendered(Parse(filter).node, member_names)))
    /\ pc' = "done"
    /\ UNCHANGED <<inflight, calls, answers, all_users, start_index, patch_ops, log, response,
                 concurrent>>

\* key.lower() for the header names a client sends
LowerHeader(key) ==
    CASE key = "Authorization" -> "authorization"
      [] key = "User-Agent" -> "user-agent"
      [] key = "Cookie" -> "cookie"
      [] OTHER -> key

\* important_headers
important_headers ==
    {"authorization", "x-api-key", "x-auth-token", "bearer", "cookie", "x-forwarded-for",
     "x-real-ip", "user-agent"}

\* headers.setdefault(key, value)
SetDefault(headers, key, value) ==
    IF key \in DOMAIN headers THEN headers ELSE DictSet(headers, key, value)

\* a _prepare_headers that copies every header of the client
PrepareHeadersAll(original_headers, content_type) ==
    SetDefault(SetDefault(
        IF content_type # "" THEN DictSet(original_headers, "Content-Type", content_type)
        ELSE original_headers,
        "Accept", "application/scim+json"), "User-Agent", "SCIM-Proxy/1.0.0")

\* _prepare_headers; content_type "" stands for None
PrepareHeaders(original_headers, content_type) ==
    SetDefault(SetDefault(
        IF content_type # ""
        THEN DictSet([key \in {k \in DOMAIN original_headers :
                                  LowerHeader(k) \in important_headers} |->
                         original_headers[key]], "Content-Type", content_type)
        ELSE [key \in {k \in DOMAIN original_headers : LowerHeader(k) \in important_headers} |->
                 original_headers[key]],
        "Accept", "application/scim+json"), "User-Agent", "SCIM-Proxy/1.0.0")

\* the headers of the client's requests
ClientHeaderNames ==
    {"Authorization", "cookie", "user-agent", "accept", "content-type", "x-request-id"}
ClientHeaderValues == {"one", "two"}
ClientHeaders == UNION {[names -> ClientHeaderValues] : names \in SUBSET ClientHeaderNames}

\* SCIMProxyService._prepare_headers(original_headers, content_type)
CallPrepareHeaders ==
    /\ pc = "idle"
    /\ \E original_headers \in ClientHeaders, content_type \in {"", "application/scim+json"} :
          /\ req' = [kind |-> "prepare_headers", original_headers |-> original_headers,
                     content_type |-> content_type]
          /\ returned' = PyDict(PrepareHeaders(original_headers, content_type))
    /\ pc' = "done"
    /\ UNCHANGED <<inflight, calls, answers, all_users, start_index, patch_ops, log, response,
                 concurrent>>

NextFunction ==
    \/ CallFilterUserAttributes
    \/ CallEvaluateAttributeExpression
    \/ CallApplyFilter
    \/ CallParse
    \/ CallParseRendered
    \/ CallPrepareHeaders

SpecFunction == Init /\ [][NextFunction]_vars

\* the names of a list of attributes
NameSet(names) == {names[i] : i \in 1..Len(names)}

\* the keys a projection of doc with the include list and the exclude list keeps
ProjectedKeys(doc, A, E) ==
    IF A # {} THEN (A \cup {"id", "schemas"}) \cap DOMAIN doc
    ELSE IF E # {} THEN DOMAIN doc \ (E \ {"id", "schemas"})
    ELSE DOMAIN doc

\* C19: a projection with the include set A and the exclude set E keeps the
\* keys (A with id and schemas) of the document when A is not empty, the keys
\* of the document outside (E without id and schemas) when only E is given,
\* and the resource itself when neither is; id and schemas are never removed
C19_ProjectionKeys ==
    (pc = "done" /\ req.kind = "project")
        => IF req.attributes = <<>> /\ req.excluded_attributes = <<>>
           THEN returned = req.user
           ELSE /\ returned.py = "dict"
                /\ DOMAIN returned.d = ProjectedKeys(req.user.d, NameSet(req.attributes),
                                                     NameSet(req.excluded_attributes))
                /\ \A k \in DOMAIN returned.d : returned.d[k] = req.user.d[k]
                /\ {"id", "schemas"} \cap DOMAIN req.user.d \subseteq DOMAIN returned.d

\* a projection that excludes id and emails dropped emails and kept id
C19_Witness ==
    /\ pc = "done"
    /\ req.kind = "project"
    /\ req.attributes = <<>>
    /\ req.excluded_attributes = <<"id", "emails">>
    /\ "emails" \in DOMAIN req.user.d
    /\ "emails" \notin DOMAIN returned.d
    /\ "id" \in DOMAIN returned.d

\* C20: an attribute expression whose path resolves to an absent or null
\* value is false, whatever its operator
C20_AbsentIsFalse ==
    (pc = "done" /\ req.kind = "evaluate"
        /\ GetAttributeValue(req.resource, req.expr.attribute).t = "none")
        => returned = PyBool(FALSE)

\* `nosuch ne "alice"` was evaluated on a resource without the attribute
C20_Witness ==
    /\ pc = "done"
    /\ req.kind = "evaluate"
    /\ req.expr.operator = "ne"
    /\ req.expr.attribute = <<"nosuch">>
    /\ req.expr.value = PyStr(S_alice)
    /\ req.resource.py = "dict"
    /\ "nosuch" \notin DOMAIN req.resource.d
    /\ returned = PyBool(FALSE)

\* the positions of the resources on which the evaluation returned true
ReturnedTrue(resources, filter_expr) ==
    {i \in 1..Len(resources) :
        /\ ~EvaluationRaises(resources[i], filter_expr)
        /\ EvaluateExpression(resources[i], filter_expr)}

\* C21: apply_filter returns a list, which holds exactly the resources on
\* which the evaluation returned true, in their order in the working set; a
\* resource whose evaluation raises is left out and the ones after it are
\* still evaluated
C21_ApplyFilterSkipsRaising ==
    (pc = "done" /\ req.kind = "apply_filter")
        => /\ returned.t = "list"
           /\ Len(returned.items) = Cardinality(ReturnedTrue(req.resources, req.filter_expr))
           /\ \A i \in ReturnedTrue(req.resources, req.filter_expr) :
                 returned.items[Cardinality({j \in ReturnedTrue(req.resources, req.filter_expr) :
                                                j <= i})] = req.resources[i]

\* the evaluation raised on the first resource and returned true on a later one
C21_Witness ==
    /\ pc = "done"
    /\ req.kind = "apply_filter"
    /\ Len(req.resources) >= 2
    /\ EvaluationRaises(req.resources[1], req.filter_expr)
    /\ ReturnedTrue(req.resources, req.filter_expr) # {}
    /\ Len(returned.items) >= 1

RECURSIVE TokenCount(_)
\* the number of tokens an expression tree is made of
TokenCount(expr) ==
    CASE expr.type = "Attribute" -> IF expr.operator = "pr" THEN 2 ELSE 3
      [] expr.type = "Group" -> 2 + TokenCount(expr.expression)
      [] expr.type = "Complex" ->
            3 + TokenCount(expr.filter_expression) + (IF expr.sub_attribute = NoSub THEN 0 ELSE 2)
      [] expr.type = "Logical" /\ expr.operator = "not" -> 1 + TokenCount(expr.left)
      [] OTHER -> 1 + TokenCount(expr.left) + TokenCount(expr.right)

\* the filter ends where an operand, an expression or a closing bracket is due
EndsOpen(toks) ==
    \/ toks[Len(toks)].k \in {"LOGICAL", "LPAREN", "LBRACKET"}
    \/ toks[Len(toks)].k = "OPERATOR" /\ toks[Len(toks)].v # <<"pr">>

\* the filter starts with a token no expression starts with
StartsWrong(toks) == toks[1].k \notin {"ATTRIBUTE", "LPAREN", "LOGICAL"}

\* the filters that are malformed: empty, with a token after the expression,
\* truncated, with an operator without its operand, with `[` and no `]`,
\* with a value where an attribute is due
MalformedExamples ==
    {FilterBlank, FilterTrailing, FilterTruncated, FilterNoOperand, FilterUnclosedBracket,
     FilterValueFirst}

\* C22: parse returns a tree made of every token of the input or fails with
\* InvalidFilterError, and it fails on the malformed filters
C22_ParseAllOrInvalidFilter ==
    (pc = "done" /\ req.kind = "parse")
        => /\ returned.ok => /\ ~req.filter.blank
                             /\ TokenCount(returned.node) = Len(req.filter.toks)
           /\ ~returned.ok => returned.err = "InvalidFilterError"
           /\ req.filter \in MalformedExamples => ~returned.ok
           /\ (~req.filter.blank /\ (EndsOpen(req.filter.toks) \/ StartsWrong(req.filter.toks)))
                 => ~returned.ok

\* parse failed on a filter with `[` and no `]`
C22_Witness ==
    /\ pc = "done"
    /\ req.kind = "parse"
    /\ req.filter = FilterUnclosedBracket
    /\ ~returned.ok
    /\ returned.err = "InvalidFilterError"

RECURSIVE WithoutGroups(_)
\* an expression tree without its Group nodes
WithoutGroups(expr) ==
    CASE expr.type = "Attribute" -> expr
      [] expr.type = "Group" -> WithoutGroups(expr.expression)
      [] expr.type = "Complex" ->
            ComplexAttributeExpression(expr.attribute, WithoutGroups(expr.filter_expression),
                                       expr.sub_attribute)
      [] expr.type = "Logical" /\ expr.operator = "not" ->
            LogicalExpression("not", WithoutGroups(expr.left), PyNone)
      [] OTHER ->
            LogicalExpression(expr.operator, WithoutGroups(expr.left), WithoutGroups(expr.right))

\* C23: the rendering of the tree of a valid filter parses again, to a tree
\* equal to the first one (the parentheses the rendering adds left aside)
C23_RenderedParsesEqual ==
    (pc = "done" /\ req.kind = "parse_rendered")
        => /\ returned.ok
           /\ WithoutGroups(returned.node) = WithoutGroups(req.tree)

\* the trees of `x eq n` and `x pr`
Compare(x, n) == AttributeExpression(<<x>>, "eq", PyInt(n))
Present(x) == AttributeExpression(<<x>>, "pr", PyNone)

\* the tree the precedence of the operators gives each of these filters
ExpectedTree(filter) ==
    CASE filter = FilterAndOr ->
            LogicalExpression("or",
                LogicalExpression("and", Compare("a", 1), Compare("b", 2)), Compare("c", 3))
      [] filter = FilterNotAnd ->
            LogicalExpression("and", LogicalExpression("not", Present("a"), PyNone), Present("b"))
      [] filter = FilterOrAnd ->
            LogicalExpression("or", Present("a"),
                LogicalExpression("and", Present("b"), Present("c")))
      [] filter = FilterOrOr ->
            LogicalExpression("or", LogicalExpression("or", Present("a"), Present("b")),
                              Present("c"))
      [] filter = FilterAndAnd ->
            LogicalExpression("and", LogicalExpression("and", Present("a"), Present("b")),
                              Present("c"))

\* C24: `or` binds loosest, `and` tighter, `not` tightest and to its primary
\* only, `and` and `or` associate to the left: `a eq 1 and b eq 2 or c eq 3`
\* is or(and(a eq 1, b eq 2), c eq 3), `not a pr and b pr` is
\* and(not(a pr), b pr)
C24_Precedence ==
    (pc = "done" /\ req.kind = "parse"
        /\ req.filter \in {FilterAndOr, FilterNotAnd, FilterOrAnd, FilterOrOr, FilterAndAnd})
        => /\ returned.ok
           /\ returned.node = ExpectedTree(req.filter)

\* `not a pr and b pr` was parsed to a conjunction
C24_Witness ==
    /\ pc = "done"
    /\ req.kind = "parse"
    /\ req.filter = FilterNotAnd
    /\ returned.ok
    /\ returned.node.operator = "and"

\* the names of the headers that are forwarded, lower-cased
ForwardedNames ==
    {"authorization", "x-api-key", "x-auth-token", "bearer", "cookie", "x-forwarded-for",
     "x-real-ip", "user-agent"}

\* the two sets of client headers differ in headers that are not forwarded only
SameForwarded(h1, h2) ==
    /\ {k \in DOMAIN h1 : LowerHeader(k) \in ForwardedNames}
           = {k \in DOMAIN h2 : LowerHeader(k) \in ForwardedNames}
    /\ \A k \in DOMAIN h1 : LowerHeader(k) \in ForwardedNames => h1[k] = h2[k]

\* C25: of the client's headers the upstream headers hold the forwarded ones,
\* with their values, and none of the others; the client headers that differ
\* from these in other headers only give the same upstream headers
C25_OnlyListedHeaders ==
    (pc = "done" /\ req.kind = "prepare_headers")
        => /\ \A k \in DOMAIN req.original_headers :
                 IF LowerHeader(k) \in ForwardedNames
                 THEN k \in DOMAIN returned.d /\ returned.d[k] = req.original_headers[k]
                 ELSE k \notin DOMAIN returned.d
           /\ \A h \in ClientHeaders :
                 SameForwarded(h, req.original_headers)
                     => PrepareHeaders(h, req.content_type) = returned.d

\* a request with a cookie and an x-request-id: the cookie alone was forwarded
C25_Witness ==
    /\ pc = "done"
    /\ req.kind = "prepare_headers"
    /\ {"cookie", "x-request-id"} \subseteq DOMAIN req.original_headers
    /\ "cookie" \in DOMAIN returned.d
    /\ returned.d["cookie"] = req.original_headers["cookie"]
    /\ "x-request-id" \notin DOMAIN returned.d

\* the least number of pages of page_size that hold n resources
PagesFor(n) == (n + page_size - 1) \div page_size

\* C26: the backfill of a filtered list sends at most ceil(working size / 100)
\* page requests, whatever the upstream answers: while it runs, one request is
\* awaited and every earlier one was answered, and once the handler has
\* responded every request was answered and none is awaited
C26_BackfillTerminates ==
    FilteredList
        => /\ Len(calls) <= PagesFor(MaxFetch(req.count))
           /\ pc \in {"backfill", "done"}
           /\ pc = "backfill" => Len(inflight) = 1 /\ Len(calls) = Len(answers) + 1
           /\ pc = "done" => inflight = <<>> /\ Len(calls) = Len(answers)

\* the backfill ended with its last allowed request: the pages before it were
\* full and advertised no total, or one that was not reached
C26_Witness ==
    /\ FilteredList /\ pc = "done"
    /\ Len(calls) = PagesFor(MaxFetch(req.count))
    /\ Len(calls) >= 3
    /\ answers[1].total = 0
    /\ answers[2].total > 2 * page_size

\* C27: the k-th page request of a backfill asks for startIndex
\* 1 + 100 * (k - 1) and count 100 and is sent once the k-1 requests before it
\* were answered; at most one request is awaited at a time
C27_PagesInSequence ==
    FilteredList
        => /\ \A k \in 1..Len(calls) :
                 /\ calls[k].method = "GET"
                 /\ calls[k].params.startIndex = 1 + page_size * (k - 1)
                 /\ calls[k].params.count = page_size
           /\ Len(inflight) <= 1
           /\ Len(answers) <= Len(calls)
           /\ Len(calls) <= Len(answers) + 1
           /\ inflight # <<>> => inflight[1] = calls[Len(calls)] /\ Len(calls) = Len(answers) + 1

\* the third page request is awaited: the two before it were answered
C27_Witness ==
    /\ FilteredList
    /\ Len(calls) = 3
    /\ Len(answers) = 2
    /\ inflight = <<calls[3]>>
    /\ calls[3].params.startIndex = 1 + 2 * page_size

\* the resources fetched with the first k answers
FetchedBy(k) == Len(Fetched(SubSeq(answers, 1, k)))

\* the k-th answer is a page shorter than page_size
ShortAnswer(k) == Succeeded(answers[k]) /\ answers[k].n < page_size

\* C28 as stated: after a page with fewer than 100 resources, or one with which
\* the resources fetched reach the totalResults it advertises, the backfill
\* sends no further request
C28_NoRequestAfterEnd ==
    FilteredList
        => \A k \in 1..Len(answers) :
              (ShortAnswer(k) \/ (Succeeded(answers[k]) /\ FetchedBy(k) >= answers[k].total))
                  => Len(calls) = k /\ inflight = <<>>

\* C28, amended: after a page with fewer than 100 resources, or one with which
\* the resources fetched reach the totalResults it advertises, when that is not
\* zero, the backfill sends no further request
C28_NoRequestAfterEndNonZero ==
    FilteredList
        => \A k \in 1..Len(answers) :
              (ShortAnswer(k)
                  \/ (/\ Succeeded(answers[k])
                      /\ answers[k].total # 0
                      /\ FetchedBy(k) >= answers[k].total))
                  => Len(calls) = k /\ inflight = <<>>

\* the second page was full and reached the totalResults it advertised: the
\* backfill ended below its cap with two requests
C28_Witness ==
    /\ FilteredList /\ pc = "done"
    /\ Len(answers) = 2
    /\ answers[2].n = page_size
    /\ answers[2].total = 2 * page_size
    /\ Len(all_users) < MaxFetch(req.count)
    /\ Len(calls) = 2

-----------------------------------------------------------------------------
(* Handlers that run at once.  The routers' handlers are coroutines of one  *)
(* event loop: a handler runs until it awaits, and another handler runs     *)
(* only then.                                                               *)

\* a list_users that would await between _tokenize and _parse_logical_or
AwaitsInParse(at) == at \in {"tokenized", "awaiting", "get", "patch"}

\* whether the handler awaits at the position: parse() holds no await and
\* list_users awaits get_all_users_for_filtering; patch_user awaits the
\* get_user of _adapt_patch_for_upstream and proxy_service.patch_user
Awaits(at) == at \in {"awaiting", "get", "patch"}

\* the event loop may run the handler: it is the one running, or none is and
\* the handler starts or is resumed from an await
MayRun(t) ==
    \/ running = t
    \/ running = 0 /\ (tasks[t].pc = "idle" \/ Awaits(tasks[t].pc))

\* the handler the loop runs once handler t has reached the position
RunsAfter(t, at) == IF at = "done" \/ Awaits(at) THEN 0 ELSE t

\* the filters of the list requests that run at once
ConcurrentFilters ==
    {FilterUserNameEq, FilterActive, FilterTitleOrInactive, FilterTruncated, FilterBadCharacter,
     FilterBlank}

\* list_users raises for the filter: the client's 400
InvalidFilterResponse == HttpExceptionHandler(ListUsersRaise(InvalidFilterError))

\* FilterParser.parse up to position = 0: the check of the string, _tokenize
\* and the two assignments to the fields of the shared parser
ListUsersTokenize(t, filter) ==
    /\ tasks[t].pc = "idle"
    /\ MayRun(t)
    /\ IF filter.blank \/ TokenizeFails(filter.toks)
       THEN /\ tasks' = [tasks EXCEPT ![t] = [@ EXCEPT !.pc = "done", !.filter = filter,
                                                     !.parsed = Parse(filter),
                                                     !.response = InvalidFilterResponse]]
            /\ running' = RunsAfter(t, "done")
            /\ UNCHANGED <<tokens, position>>
       ELSE /\ tasks' = [tasks EXCEPT ![t] = [@ EXCEPT !.pc = "tokenized", !.filter = filter]]
            /\ tokens' = filter.toks
            /\ position' = 1
            /\ running' = RunsAfter(t, "tokenized")
    /\ UNCHANGED <<pc, req, inflight, calls, answers, all_users, start_index, patch_ops, log,
                   response, returned, upstream>>

\* FilterParser.parse from _parse_logical_or on, over the tokens the shared
\* parser holds, and list_users up to its await of the backfill; a parse that
\* fails leaves position where it stopped
ListUsersParse(t) ==
    /\ tasks[t].pc = "tokenized"
    /\ MayRun(t)
    /\ \E e \in {AllConsumed(tokens, ParseLogicalOr(tokens, 1))} :
          IF e.ok
          THEN /\ tasks' = [tasks EXCEPT ![t] = [@ EXCEPT !.pc = "awaiting", !.parsed = e]]
               /\ position' = e.pos
               /\ running' = RunsAfter(t, "awaiting")
          ELSE /\ tasks' = [tasks EXCEPT ![t] = [@ EXCEPT !.pc = "done", !.parsed = e,
                                                        !.response = InvalidFilterResponse]]
               /\ position' \in 1..(Len(tokens) + 1)
               /\ running' = RunsAfter(t, "done")
    /\ UNCHANGED <<pc, req, inflight, calls, answers, all_users, start_index, patch_ops, log,
                   response, returned, tokens, upstream>>

\* list_users from the return of get_all_users_for_filtering on: apply_filter
\* with the handler's own filter_expr
ListUsersFilter(t, resources) ==
    /\ tasks[t].pc = "awaiting"
    /\ MayRun(t)
    /\ tasks' = [tasks EXCEPT ![t] =
                    [@ EXCEPT !.pc = "done", !.resources = resources,
                              !.response = Success(200, PyList(ApplyFilter(
                                               resources, tasks[t].parsed.node)))]]
    /\ running' = RunsAfter(t, "done")
    /\ UNCHANGED <<pc, req, inflight, calls, answers, all_users, start_index, patch_ops, log,
                   response, returned, tokens, position, upstream>>

\* the working sets the backfills of the handlers return
ConcurrentResources ==
    {<<>>, <<DictObject(UserAlice), DictObject(UserBob)>>, <<DictObject(UserCarol)>>}

NextLists ==
    \/ \E t \in Tasks, filter \in ConcurrentFilters : ListUsersTokenize(t, filter)
    \/ \E t \in Tasks : ListUsersParse(t)
    \/ \E t \in Tasks, resources \in ConcurrentResources : ListUsersFilter(t, resources)

SpecLists == Init /\ [][NextLists]_vars

\* C29: with list requests running at once over the one FilterParser of the
\* module, every handler that has parsed holds the parse of its own filter,
\* and answers from it: 400 when its filter does not parse, the matches of its
\* own filter otherwise
C29_OwnParse ==
    \A t \in Tasks :
        tasks[t].pc \in {"awaiting", "done"}
            => /\ tasks[t].parsed = Parse(tasks[t].filter)
               /\ tasks[t].pc = "done"
                     => tasks[t].response =
                           IF Parse(tasks[t].filter).ok
                           THEN Success(200, PyList(ApplyFilter(tasks[t].resources,
                                                                Parse(tasks[t].filter).node)))
                           ELSE InvalidFilterResponse

\* the second handler parsed its filter while the first awaited its backfill:
\* the shared parser holds the second filter's tokens, and the first handler
\* answered with the matches of its own filter
C29_Witness ==
    /\ tasks[1].pc = "done"
    /\ tasks[2].pc = "awaiting"
    /\ tasks[1].filter = FilterUserNameEq
    /\ tasks[2].filter = FilterActive
    /\ tokens = FilterActive.toks
    /\ tasks[1].response.status = 200
    /\ Len(tasks[1].resources) = 2
    /\ Len(tasks[1].response.body.items) = 1

-----------------------------------------------------------------------------
(* PATCH requests for one resource that run at once.  The upstream answers  *)
(* a GET with the resource it stores and applies the replace operations of  *)
(* a PATCH to it.                                                           *)

S_other == <<"o", "t", "h", "e", "r">>
OpAddOtherPhone ==
    PatchOperation("add", FilteredPath("phoneNumbers", "type", <<Quoted(S_other)>>, "value"),
                   PyStr(S_phone1))

\* the operations of the PATCH requests that run at once: one filtered add each
ConcurrentOperations ==
    {<<OpAddWorkPhone>>, <<OpAddOtherPhone>>, <<OpAddHomePhone>>, <<OpAddWorkEmail>>}

\* patch_user up to the await of get_user in _adapt_patch_for_upstream
PatchUserStart(t, ops) ==
    /\ tasks[t].pc = "idle"
    /\ MayRun(t)
    /\ AddOperationsToConvert(ops) # <<>>
    /\ tasks' = [tasks EXCEPT ![t] = [@ EXCEPT !.pc = "get", !.Operations = ops,
                                                  !.patch_ops = AdaptedOperations(ops)]]
    /\ running' = RunsAfter(t, "get")
    /\ UNCHANGED <<pc, req, inflight, calls, answers, all_users, start_index, patch_ops, log,
                   response, returned, tokens, position, upstream>>

\* the upstream answers the GET with the resource it stores, or the GET
\* fails: _adapt_patch_for_upstream to its return, and patch_user up to the
\* await of proxy_service.patch_user
PatchUserRead(t, answer) ==
    /\ tasks[t].pc = "get"
    /\ MayRun(t)
    /\ tasks' = [tasks EXCEPT ![t] =
                    [@ EXCEPT !.pc = "patch",
                              !.read = ServiceCall("get", answer).type = "none",
                              !.patch_ops =
                                  IF ServiceCall("get", answer).type = "none"
                                  THEN ConvertAdds(UserDump(upstream), tasks[t].Operations,
                                                   tasks[t].patch_ops)
                                  ELSE tasks[t].patch_ops]]
    /\ running' = RunsAfter(t, "patch")
    /\ UNCHANGED <<pc, req, inflight, calls, answers, all_users, start_index, patch_ops, log,
                   response, returned, tokens, position, upstream>>

RECURSIVE Replaced(_, _)
\* the resource after the upstream applied the replace operations of a PATCH
Replaced(doc, ops) ==
    IF ops = <<>> THEN doc
    ELSE Replaced(IF Head(ops).op = "replace" /\ Head(ops).path.given /\ ~Head(ops).path.filtered
                  THEN DictSet(doc, Head(ops).path.base, Head(ops).value)
                  ELSE doc,
                  Tail(ops))

\* the upstream answers the PATCH, having applied it when it answers 200:
\* patch_user to its response
PatchUserWritten(t, answer) ==
    /\ tasks[t].pc = "patch"
    /\ MayRun(t)
    /\ \E exc \in {ServiceCall("patch", answer)} :
          /\ upstream' = IF answer.kind = "status" /\ answer.code = 200
                         THEN Replaced(upstream, tasks[t].patch_ops)
                         ELSE upstream
          /\ tasks' = [tasks EXCEPT ![t] =
                          [@ EXCEPT !.pc = "done",
                                    !.response =
                                        IF exc.type = "none"
                                        THEN Success(RouteStatus("patch"), PyNone)
                                        ELSE HttpExceptionHandler(RouterExcept(exc))]]
    /\ running' = RunsAfter(t, "done")
    /\ UNCHANGED <<pc, req, inflight, calls, answers, all_users, start_index, patch_ops, log,
                   response, returned, tokens, position>>

NextPatches ==
    \/ \E t \in Tasks, ops \in ConcurrentOperations : PatchUserStart(t, ops)
    \/ \E t \in Tasks, answer \in {Status(200, TRUE), Transport} : PatchUserRead(t, answer)
    \/ \E t \in Tasks, answer \in {Status(200, TRUE), Status(500, FALSE)} :
          PatchUserWritten(t, answer)

SpecPatches == Init /\ [][NextPatches]_vars

\* the filtered add of the handler's request
AddOf(t) == tasks[t].Operations[1]

\* the array the upstream stores holds the element the add names, with the
\* value the add sets
Stored(op) ==
    /\ op.path.base \in DOMAIN upstream
    /\ \E i \in 1..Len(upstream[op.path.base].items) :
          /\ Matches(upstream[op.path.base].items[i], op.path.field,
                     StripQuotes(op.path.literals[1]))
          /\ DictGet(upstream[op.path.base].items[i].d, op.path.sub) = op.value

\* the handler read the resource, and the upstream applied its PATCH
Applied(t) == tasks[t].pc = "done" /\ tasks[t].read /\ tasks[t].response.status = 200

\* C30: two PATCH requests for one resource ran at once, each adding another
\* element to the same array with a filtered add, and both were applied: the
\* array the upstream stores holds both elements
C30_NoLostUpdate ==
    (/\ Applied(1) /\ Applied(2)
     /\ AddOf(1).path.base = AddOf(2).path.base
     /\ AddOf(1).path.literals # AddOf(2).path.literals)
        => Stored(AddOf(1)) /\ Stored(AddOf(2))

====
